---------------------------- MODULE Spec2Model ----------------------------
(***************************************************************************)
(* Model of the Lens Format codec (src/lens_format/core.pyx and the module *)
(* kept in src/unnamed/part_000).                                          *)
(*                                                                         *)
(* Conventions.                                                            *)
(*  - A 64-bit machine word (uint64_t / int64_t) is the set of its 1-bits, *)
(*    a subset of 0..63.  Signed words are two's complement, so bit 63 is  *)
(*    the sign.  Shifts, xor, or and negation are set operations and wrap  *)
(*    at 64 bits as the compiled C does.                                   *)
(*  - A byte is a number in 0..255; a buffer is a sequence of bytes; the   *)
(*    code's 0-based position p addresses buffer[p + 1].                   *)
(*  - A Python string is the sequence of its code points.                  *)
(*  - Exceptions raised inside cdef functions propagate to the caller of   *)
(*    encode() / decode_all() (the semantics of Cython 3).                 *)
(***************************************************************************)
EXTENDS Integers, Sequences, FiniteSets, TLC

----------------------------------------------------------------------------
(* Machine words *)

WordBits == 0..63

RECURSIVE Pow2(_)
Pow2(i) == IF i = 0 THEN 1 ELSE 2 * Pow2(i - 1)

\* the bits of a small natural number (below 2^31)
BitsOf(v) == {i \in 0..30 : (v \div Pow2(i)) % 2 = 1}

RECURSIVE SumPow2(_)
SumPow2(s) == IF s = {} THEN 0
              ELSE LET i == CHOOSE j \in s : TRUE IN Pow2(i) + SumPow2(s \ {i})

\* the number a word stands for, when it is below 2^31
ToNat(w) == SumPow2(w)

IsSmallWord(w) == w \subseteq 0..30

\* a small Python int as a signed 64-bit word
IntWord(n) == IF n >= 0 THEN BitsOf(n) ELSE WordBits \ BitsOf(-n - 1)

Xor(a, b) == (a \ b) \cup (b \ a)

\* (uint64_t) w << k : bits shifted past bit 63 are lost
Shl(w, k) == {i + k : i \in {j \in w : j + k <= 63}}

\* (uint64_t) w >> k
Shr(w, k) == {i - k : i \in {j \in w : j >= k}}

\* (int64_t) w >> 63 : arithmetic shift, all ones for a negative word
Sar63(w) == IF 63 \in w THEN WordBits ELSE {}

\* -(w & 1) in 64 bits
NegLowBit(w) == IF 0 \in w THEN WordBits ELSE {}

c_zigzag_decode_lowbit_mut(n) == Xor(Shr(n, 1), IF 0 \in n THEN {0} ELSE {})

c_zigzag_decode(n) == Xor(Shr(n, 1), NegLowBit(n))

c_zigzag_encode(n) == Xor(Shl(n, 1), Sar63(n))

\* src/unnamed/part_000 carries the same two functions under these names
zigzag_encode(n) == Xor(Shl(n, 1), Sar63(n))

zigzag_decode(n) == Xor(Shr(n, 1), NegLowBit(n))

----------------------------------------------------------------------------
(* Python ints and C doubles                                               *)
(*                                                                         *)
(* A natural number of any size is the set of its 1-bits.  A finite        *)
(* non-negative double is [m, e], the number m * 2^e with m below 2^53 or  *)
(* equal to it; the operations round to nearest, ties to even, as IEEE-754 *)
(* arithmetic does.  The sign is carried beside the magnitude.             *)

TopBit(s) == CHOOSE i \in s : \A j \in s : i >= j

BigShl(s, k) == {i + k : i \in s}

BigShr(s, k) == {i - k : i \in {j \in s : j >= k}}

\* s + 1
BigInc(s) ==
    LET z == CHOOSE i \in 0..(Cardinality(s)) : i \notin s /\ \A j \in 0..(i - 1) : j \in s
    IN  (s \ (0..z)) \cup {z}

\* the base-1024 digits of s, least significant first
DigitBase == Pow2(10)

DigitsOf(s) ==
    IF s = {} THEN <<>>
    ELSE [j \in 1..((TopBit(s) \div 10) + 1) |->
             SumPow2({k \in 0..9 : (10 * (j - 1) + k) \in s})]

BitsOfDigits(d) ==
    UNION {{10 * (j - 1) + k : k \in {i \in 0..9 : (d[j] \div Pow2(i)) % 2 = 1}} :
              j \in 1..Len(d)}

\* s * c + carry for c up to 10^6 and carry below c: short multiplication
RECURSIVE MulDigits(_, _, _, _)
MulDigits(d, c, i, carry) ==
    IF i > Len(d) THEN (IF carry = 0 THEN <<>>
                        ELSE <<carry % DigitBase>> \o MulDigits(d, c, i, carry \div DigitBase))
    ELSE LET t == d[i] * c + carry
         IN  <<t % DigitBase>> \o MulDigits(d, c, i + 1, t \div DigitBase)

MulAdd(s, c, carry) == BitsOfDigits(MulDigits(DigitsOf(s), c, 1, carry))

\* [q, r]: s = q * c + r for c up to 10^6: short division, most significant
\* digit first
RECURSIVE DivDigits(_, _, _, _)
DivDigits(d, c, i, rem) ==
    IF i = 0 THEN [q |-> <<>>, r |-> rem]
    ELSE LET t == rem * DigitBase + d[i]
             rest == DivDigits(d, c, i - 1, t % c)
         IN  [q |-> rest.q \o <<t \div c>>, r |-> rest.r]

DivMod(s, c) ==
    LET d == DigitsOf(s)
        dm == DivDigits(d, c, Len(d), 0)
    IN  [q |-> BitsOfDigits(dm.q), r |-> dm.r]

\* the double nearest to q * 2^e (q with something below its last bit when
\* sticky), ties to even
RoundTo53(q, sticky, e) ==
    IF q = {} THEN [m |-> {}, e |-> 0]
    ELSE IF TopBit(q) <= 52 THEN [m |-> q, e |-> e]
    ELSE LET sh == TopBit(q) - 52
             kept == BigShr(q, sh)
             half == (sh - 1) \in q
             below == sticky \/ \E i \in q : i < sh - 1
             up == half /\ (below \/ 0 \in kept)
         IN  [m |-> IF up THEN BigInc(kept) ELSE kept, e |-> e + sh]

\* (double) n for a natural number n
ToDouble(s) == RoundTo53(s, FALSE, 0)

\* a / c for a natural number a (int / int in Python is rounded once)
TrueDiv(a, c) ==
    IF a = {} THEN [m |-> {}, e |-> 0]
    ELSE LET s == IF TopBit(a) >= 75 THEN 0 ELSE 75 - TopBit(a)
             dm == DivMod(BigShl(a, s), c)
         IN  RoundTo53(dm.q, dm.r # 0, -s)

\* x / c for a double x
FDiv(x, c) ==
    IF x.m = {} THEN x
    ELSE LET a == IF x.e >= 0 THEN BigShl(x.m, x.e) ELSE x.m
             e0 == IF x.e >= 0 THEN 0 ELSE x.e
             s == IF TopBit(a) >= 75 THEN 0 ELSE 75 - TopBit(a)
             dm == DivMod(BigShl(a, s), c)
         IN  RoundTo53(dm.q, dm.r # 0, e0 - s)

\* x * c for a double x
FMul(x, c) == RoundTo53(MulAdd(x.m, c, 0), FALSE, x.e)

\* the integral part of x: int(x), and the first result of modf
Trunc(x) == IF x.e >= 0 THEN BigShl(x.m, x.e) ELSE BigShr(x.m, -x.e)

\* the fractional part of x: the second result of modf
Frac(x) == IF x.e >= 0 THEN [m |-> {}, e |-> 0] ELSE [m |-> {i \in x.m : i < -x.e}, e |-> x.e]

\* x rounded to an integer, halves to even (_PyTime_ROUND_HALF_EVEN)
RoundHalfEven(x) ==
    IF x.e >= 0 THEN BigShl(x.m, x.e)
    ELSE LET sh == -x.e
             kept == BigShr(x.m, sh)
             half == (sh - 1) \in x.m
             below == \E i \in x.m : i < sh - 1
         IN  IF half /\ (below \/ 0 \in kept) THEN BigInc(kept) ELSE kept

\* An aware datetime is the instant it names: the sign and the magnitude of
\* its microseconds since 1970-01-01T00:00:00Z.
Instant(neg, mag) == [neg |-> neg, mag |-> mag]

\* -(int64_t) w
WordNeg(w) == BigInc(WordBits \ w) \cap WordBits

\* obj.timestamp(): the microseconds divided by 10**6, as a double
timestamp(t) == TrueDiv(t.mag, 1000000)

\* int(obj.timestamp() * 1000) as the int64_t passed to c_zigzag_encode
timestamp_ms(t) ==
    LET ts == Trunc(FMul(timestamp(t), 1000))
    IN  IF t.neg THEN WordNeg(ts) ELSE ts

\* datetime.fromtimestamp(var_int / 1000.0, tz=UTC) for the uint64_t
\* var_int: the microseconds since the epoch of the datetime built.  The
\* seconds are the integral part of the quotient, the microseconds its
\* fractional part times 1e6 rounded half to even.
fromtimestamp(var_int) ==
    LET x == FDiv(ToDouble(var_int), 1000)
        us == RoundHalfEven(FMul(Frac(x), 1000000))
    IN  MulAdd(Trunc(x), 1000000, SumPow2(us))

\* 9999-12-31T23:59:59.999999Z in microseconds, 253402300799999999
MaxTimestampUs ==
    {0, 1, 2, 3, 4, 5, 6, 7, 8, 9, 10, 11, 12, 14, 16, 17, 20, 21, 22, 26,
     27, 30, 31, 34, 35, 42, 46, 50, 55, 56, 57}

----------------------------------------------------------------------------
(* Tags *)

T_NULL == 0
T_TRUE == 1
T_FALSE == 2
T_INT == 3
T_FLOAT == 4
T_STR == 5
T_ARR == 6
T_OBJ == 7
T_SYMREF == 8
T_BYTES == 9
T_TIME == 10
T_EXT == 11
T_SET == 12
T_TUPLE == 13

----------------------------------------------------------------------------
(* Varint writer: FastEncoder._write_varint *)

\* n >= 0x80
AtLeast128(n) == \E i \in n : i >= 7

\* n & 0x7F as a byte value
Low7(n) == ToNat(n \cap 0..6)

_write_varint_short_mut(n) == <<Low7(n)>>

RECURSIVE _write_varint(_)
_write_varint(n) ==
    IF AtLeast128(n)
    THEN <<Low7(n) + 128>> \o _write_varint(Shr(n, 7))
    ELSE <<Low7(n)>>

----------------------------------------------------------------------------
(* Varint readers.  A reader returns [err, val, pos]: err = "none" and the  *)
(* value read, or the exception raised; pos is the position it leaves.      *)

\* (uint64_t)(b & 0x7F) << shift
Septet(b, shift) == Shl(BitsOf(b % 128), shift)

RdOk(v, p) == [err |-> "none", val |-> v, pos |-> p]

RdErr(e, p) == [err |-> e, val |-> {}, pos |-> p]

\* core.pyx, pooled decoder: the overflow test follows the shift += 7
RECURSIVE read_varint_loop(_, _, _, _)
read_varint_loop(buf, p, res, shift) ==
    IF p >= Len(buf)
    THEN RdErr("LensDecodeError: Unexpected end of buffer in varint", p)
    ELSE LET b == buf[p + 1]
             r == res \cup Septet(b, shift)
         IN  IF b < 128 THEN RdOk(r, p + 1)
             ELSE IF shift + 7 > 63
                  THEN RdErr("LensDecodeError: Varint overflow", p + 1)
                  ELSE read_varint_loop(buf, p + 1, r, shift + 7)

\* a reader that gives up one byte early
RECURSIVE read_varint_early_mut(_, _, _, _)
read_varint_early_mut(buf, p, res, shift) ==
    IF p >= Len(buf)
    THEN RdErr("LensDecodeError: Unexpected end of buffer in varint", p)
    ELSE LET b == buf[p + 1]
             r == res \cup Septet(b, shift)
         IN  IF shift + 7 > 63
             THEN RdErr("LensDecodeError: Varint overflow", p + 1)
             ELSE IF b < 128 THEN RdOk(r, p + 1)
                  ELSE read_varint_early_mut(buf, p + 1, r, shift + 7)

_read_varint_mut(buf, p) == read_varint_early_mut(buf, p, {}, 0)

_read_varint(buf, p) == read_varint_loop(buf, p, {}, 0)

\* src/unnamed/part_000: the overflow test precedes the or, with shift > 63
RECURSIVE read_varint_loop_p0(_, _, _, _)
read_varint_loop_p0(buf, p, res, shift) ==
    IF p >= Len(buf)
    THEN RdErr("LensDecodeError: Truncated varint", p)
    ELSE LET b == buf[p + 1]
             r == res \cup Septet(b, shift)
         IN  IF shift > 63
             THEN RdErr("LensDecodeError: Varint overflow", p + 1)
             ELSE IF b < 128 THEN RdOk(r, p + 1)
                  ELSE read_varint_loop_p0(buf, p + 1, r, shift + 7)

_read_varint_p0(buf, p) == read_varint_loop_p0(buf, p, {}, 0)

\* core.pyx, C-array decoder: rejects a byte at shift >= 63 that carries more
\* than bit 0.  shift keeps growing by 7, so from the eleventh byte on the
\* C shift count is 70 or more, which C leaves undefined: `ub` names what the
\* build makes of it ("mod64": the count is taken modulo 64, as x86-64 and
\* AArch64 shift instructions do; "zero": the shifted value is 0).
ShlUB(w, k, ub) ==
    IF k <= 63 THEN Shl(w, k)
    ELSE IF ub = "mod64" THEN Shl(w, k % 64) ELSE {}

RECURSIVE read_varint_loop_c(_, _, _, _, _)
read_varint_loop_c(buf, p, res, shift, ub) ==
    IF p >= Len(buf)
    THEN RdErr("ValueError: Truncated varint", p)
    ELSE LET b == buf[p + 1]
         IN  IF shift >= 63 /\ (b % 128) > 1
             THEN RdErr("ValueError: Varint overflow", p + 1)
             ELSE LET r == res \cup ShlUB(BitsOf(b % 128), shift, ub)
                  IN  IF b < 128 THEN RdOk(r, p + 1)
                      ELSE read_varint_loop_c(buf, p + 1, r, shift + 7, ub)

_read_varint_c(buf, p, ub) == read_varint_loop_c(buf, p, {}, 0, ub)

----------------------------------------------------------------------------
(* UTF-8, for code points below 0x800 (one- and two-byte forms) *)

RECURSIVE utf8_encode(_)
utf8_encode(s) ==
    IF s = <<>> THEN <<>>
    ELSE LET c == Head(s)
         IN  (IF c < 128 THEN <<c>>
              ELSE <<192 + (c \div 64), 128 + (c % 64)>>) \o utf8_encode(Tail(s))

\* PyUnicode_DecodeUTF8(..., "strict"): [ok, s].  Lead bytes of three- and
\* four-byte forms are outside the byte values the model feeds the decoder.
RECURSIVE utf8_decode(_)
utf8_decode(b) ==
    IF b = <<>> THEN [ok |-> TRUE, s |-> <<>>]
    ELSE LET c == Head(b)
         IN  IF c < 128
             THEN LET r == utf8_decode(Tail(b))
                  IN  [ok |-> r.ok, s |-> <<c>> \o r.s]
             ELSE IF c >= 194 /\ c < 224 /\ Len(b) >= 2 /\ b[2] >= 128 /\ b[2] < 192
                  THEN LET r == utf8_decode(Tail(Tail(b)))
                       IN  [ok |-> r.ok, s |-> <<(c - 192) * 64 + (b[2] - 128)>> \o r.s]
                  ELSE [ok |-> FALSE, s |-> <<>>]

----------------------------------------------------------------------------
(* Values handed to the encoder.  Every value is a record with a field k:   *)
(*   null | bool(b) | int(v: word) | float(v: word, the IEEE-754 bits)       *)
(*   str(s: code points) | bytes(s: bytes) | list(items) | tuple(items)      *)
(*   set(items: the elements in the host's iteration order)                  *)
(*   map(pairs: <<key, value>> in iteration order, keys distinct strings)    *)
(*   other(tok): an object of no built-in variant                            *)

VNull == [k |-> "null"]
VBool(b) == [k |-> "bool", b |-> b]
VInt(w) == [k |-> "int", v |-> w]
VFloat(w) == [k |-> "float", v |-> w]
VStr(s) == [k |-> "str", s |-> s]
VBytes(s) == [k |-> "bytes", s |-> s]
VList(items) == [k |-> "list", items |-> items]
VTuple(items) == [k |-> "tuple", items |-> items]
VSet(items) == [k |-> "set", items |-> items]
VMap(pairs) == [k |-> "map", pairs |-> pairs]
VOther(tok) == [k |-> "other", tok |-> tok]
VTime(t) == [k |-> "time", v |-> t]

----------------------------------------------------------------------------
(* FastEncoder *)

\* a map in which a repeated string keeps the index assigned first
symbol_map_first_mut(symbols) ==
    [s \in {symbols[i] : i \in 1..Len(symbols)} |->
        (CHOOSE i \in 1..Len(symbols) :
            symbols[i] = s /\ \A j \in 1..(i - 1) : symbols[j] # s) - 1]

\* __init__: {sym: i for i, sym in enumerate(symbols)}; a repeated string
\* keeps the index assigned last
symbol_map(symbols) ==
    [s \in {symbols[i] : i \in 1..Len(symbols)} |->
        (CHOOSE i \in 1..Len(symbols) :
            symbols[i] = s /\ \A j \in (i + 1)..Len(symbols) : symbols[j] # s) - 1]

\* the 8 bytes copied without lens_be64: least significant byte first
be64_bytes_noswap_mut(w) ==
    [j \in 1..8 |-> ToNat(Shr(w \cap ((8 * j - 8)..(8 * j - 1)), 8 * j - 8))]

\* lens_be64 and the copy of the 8 bytes: most significant byte first
be64_bytes(w) == [j \in 1..8 |-> ToNat(Shr(w \cap ((64 - 8 * j)..(71 - 8 * j)), 64 - 8 * j))]

\* the word whose big-endian bytes are b[1..8]
be64_word(b) == UNION {Shl(BitsOf(b[j]), 64 - 8 * j) : j \in 1..8}

\* what a call of _encode_recursive leaves: the buffer, the exception raised
\* ("none" when it returns) and the objects the extension handler was called
\* with, in call order
EncRes(b, e) == [buf |-> b, err |-> e, calls |-> <<>>]

\* r2 is what followed r
After(r, r2) == [r2 EXCEPT !.calls = r.calls \o @]

\* ext_handler(obj) was called in the step that left r
Called(r, obj) == [r EXCEPT !.calls = <<obj.tok>> \o @]

\* An extension handler is [present, res]: res maps the token of an object to
\* what the handler returns for it: [k |-> "None"], [k |-> "empty"] (a falsy
\* object other than None) or [k |-> "pair", eid, payload].
NoHandler == [present |-> FALSE, res |-> <<>>]

\* a handler result that is emitted although it is falsy
encode_unsupported_mut(buf, obj, ext_handler) ==
    IF ext_handler.present
    THEN LET res == ext_handler.res[obj.tok]
         IN  IF res.k = "pair"
             THEN Called(EncRes(buf \o <<T_EXT>> \o _write_varint(res.eid)
                                    \o _write_varint(IntWord(Len(res.payload)))
                                    \o res.payload, "none"), obj)
             ELSE Called(EncRes(buf \o <<T_EXT>> \o _write_varint({}) \o _write_varint({}),
                                "none"), obj)
    ELSE EncRes(buf, "LensEncodeError: Unsupported type")

\* a handler that is called once to test its result and once more to use it
encode_unsupported_twice_mut(buf, obj, ext_handler) ==
    IF ~ext_handler.present THEN EncRes(buf, "LensEncodeError: Unsupported type")
    ELSE IF ext_handler.res[obj.tok].k = "pair"
    THEN LET res == ext_handler.res[obj.tok]
         IN  Called(Called(EncRes(buf \o <<T_EXT>> \o _write_varint(res.eid)
                                      \o _write_varint(IntWord(Len(res.payload)))
                                      \o res.payload, "none"), obj), obj)
    ELSE Called(EncRes(buf, "LensEncodeError: Unsupported type"), obj)

\* the else branch of _encode_recursive
encode_unsupported(buf, obj, ext_handler) ==
    IF ~ext_handler.present THEN EncRes(buf, "LensEncodeError: Unsupported type")
    ELSE IF ext_handler.res[obj.tok].k = "pair"
    THEN LET res == ext_handler.res[obj.tok]
         IN  Called(EncRes(buf \o <<T_EXT>> \o _write_varint(res.eid)
                               \o _write_varint(IntWord(Len(res.payload)))
                               \o res.payload, "none"), obj)
    ELSE Called(EncRes(buf, "LensEncodeError: Unsupported type"), obj)

RECURSIVE _encode_recursive(_, _, _, _)
RECURSIVE encode_items(_, _, _, _)
RECURSIVE encode_pairs(_, _, _, _)
RECURSIVE encode_pairs_nosymref_mut(_, _, _, _)

\* for item in obj: self._encode_recursive(item)
encode_items(buf, items, smap, ext_handler) ==
    IF items = <<>> THEN EncRes(buf, "none")
    ELSE LET r == _encode_recursive(buf, Head(items), smap, ext_handler)
         IN  IF r.err # "none" THEN r
             ELSE After(r, encode_items(r.buf, Tail(items), smap, ext_handler))

\* pairs written without the T_SYMREF byte before the key's index
encode_pairs_nosymref_mut(buf, pairs, smap, ext_handler) ==
    IF pairs = <<>> THEN EncRes(buf, "none")
    ELSE LET key == Head(pairs)[1]
         IN  IF key \notin DOMAIN smap THEN EncRes(buf, "KeyError")
             ELSE LET r == _encode_recursive(buf \o _write_varint(IntWord(smap[key])),
                                             Head(pairs)[2], smap, ext_handler)
                  IN  IF r.err # "none" THEN r
                      ELSE After(r, encode_pairs_nosymref_mut(r.buf, Tail(pairs), smap,
                                                              ext_handler))

\* for k, v in obj.items(): T_SYMREF, varint(symbol_map[k]), value
encode_pairs(buf, pairs, smap, ext_handler) ==
    IF pairs = <<>> THEN EncRes(buf, "none")
    ELSE LET key == Head(pairs)[1]
             b1  == buf \o <<T_SYMREF>>
         IN  IF key \notin DOMAIN smap THEN EncRes(b1, "KeyError")
             ELSE LET r == _encode_recursive(b1 \o _write_varint(IntWord(smap[key])),
                                             Head(pairs)[2], smap, ext_handler)
                  IN  IF r.err # "none" THEN r
                      ELSE After(r, encode_pairs(r.buf, Tail(pairs), smap, ext_handler))

\* isinstance(obj, int): True and False are instances of int as well
IsInstanceInt(obj) == obj.k \in {"int", "bool"}

\* the int64_t an int object converts to
AsInt64(obj) == IF obj.k = "bool" THEN (IF obj.b THEN {0} ELSE {}) ELSE obj.v

\* the tests are made in this order
_encode_recursive(buf, obj, smap, ext_handler) ==
    IF obj.k = "null" THEN EncRes(buf \o <<T_NULL>>, "none")
    ELSE IF obj.k = "bool" /\ obj.b THEN EncRes(buf \o <<T_TRUE>>, "none")
    ELSE IF obj.k = "bool" /\ ~obj.b THEN EncRes(buf \o <<T_FALSE>>, "none")
    ELSE IF IsInstanceInt(obj)
    THEN EncRes(buf \o <<T_INT>> \o _write_varint(c_zigzag_encode(AsInt64(obj))), "none")
    ELSE IF obj.k = "float" THEN EncRes(buf \o <<T_FLOAT>> \o be64_bytes(obj.v), "none")
    ELSE IF obj.k = "str"
    THEN IF obj.s \in DOMAIN smap
         THEN EncRes(buf \o <<T_SYMREF>> \o _write_varint(IntWord(smap[obj.s])), "none")
         ELSE LET b_val == utf8_encode(obj.s)
              IN  EncRes(buf \o <<T_STR>> \o _write_varint(IntWord(Len(b_val))) \o b_val,
                         "none")
    ELSE IF obj.k = "time"
    THEN EncRes(buf \o <<T_TIME>> \o _write_varint(c_zigzag_encode(timestamp_ms(obj.v))),
                "none")
    ELSE IF obj.k = "list"
    THEN encode_items(buf \o <<T_ARR>> \o _write_varint(IntWord(Len(obj.items))),
                      obj.items, smap, ext_handler)
    ELSE IF obj.k = "map"
    THEN encode_pairs(buf \o <<T_OBJ>> \o _write_varint(IntWord(Len(obj.pairs))),
                      obj.pairs, smap, ext_handler)
    ELSE IF obj.k = "bytes"
    THEN EncRes(buf \o <<T_BYTES>> \o _write_varint(IntWord(Len(obj.s))) \o obj.s, "none")
    ELSE IF obj.k = "tuple"
    THEN encode_items(buf \o <<T_TUPLE>> \o _write_varint(IntWord(Len(obj.items))),
                      obj.items, smap, ext_handler)
    ELSE IF obj.k = "set"
    THEN encode_items(buf \o <<T_SET>> \o _write_varint(IntWord(Len(obj.items))),
                      obj.items, smap, ext_handler)
    ELSE encode_unsupported(buf, obj, ext_handler)

\* FastEncoder.encode: clear the buffer, encode, return bytes(self.buffer).
\* [err, out, buffer, calls]: out is what the call returns (nothing when it
\* raises), buffer what self.buffer holds afterwards
encode(obj, symbols, ext_handler) ==
    LET r == _encode_recursive(<<>>, obj, symbol_map(symbols), ext_handler)
    IN  [err |-> r.err, out |-> IF r.err = "none" THEN r.buf ELSE <<>>, buffer |-> r.buf,
         calls |-> r.calls]

----------------------------------------------------------------------------
(* State *)

VARIABLES
    phase,        \* "new" | "encoded" | "decoding" | "done" : where the run is
    input,        \* what the run was given: a value to encode or raw bytes
    symbols,      \* the symbol table shared by encoder and decoder
    ext_handler,  \* FastEncoder.ext_handler
    enc,          \* result of FastEncoder.encode: [err, out, buffer]
    buffer,       \* FastDecoder.buffer
    pos,          \* FastDecoder.pos
    zero_copy,    \* FastDecoder.zero_copy
    ext_hook,     \* FastDecoder.ext_hook is set
    ts_hook,      \* FastDecoder.ts_hook is set
    pool_idx,     \* FastDecoder.pool_idx
    frames,       \* the DecodeFrame objects in use, by frame id
    stack,        \* decode_all: stack, a sequence of frame ids
    frame,        \* decode_all: the local `frame` (0: unassigned)
    val,          \* decode_all: the local `val`
    heap,         \* the Python objects the decoder created
    nheap,        \* number of DecodeFrame objects allocated outside the pool
    status,       \* "idle" | "running" | "returned" | "raised" | "crashed"
    error,        \* the exception raised, "none" otherwise
    result,       \* the reference decode_all returned
    oob,          \* a byte was read at a position outside 0..size-1
    maxread,      \* highest buffer position read so far, -1 when none
    calc          \* what a helper function returned, for the runs that call one

vars == <<phase, input, symbols, ext_handler, enc, buffer, pos, zero_copy, ext_hook,
          ts_hook, pool_idx, frames, stack, frame, val, heap, nheap, status, error,
          result, oob, maxread, calc>>

----------------------------------------------------------------------------
(* Object references and the heap of the decoder.                           *)
(* None, True, False and the strings of the symbol table exist before the   *)
(* decoder runs; their reference counts are not tracked.  Every object the  *)
(* decoder creates is an entry of `heap`:                                   *)
(*   [kind, data, size, rc, base, clob]                                     *)
(* rc is ob_refcnt; base is 1 for an object the interpreter also holds in a *)
(* cache (small ints, strings and bytes of length <= 1, the empty tuple);   *)
(* rc = 0 means the object was deallocated; clob says its memory was        *)
(* overwritten after that.                                                  *)

NoneRef == [t |-> "None", n |-> 0]
TrueRef == [t |-> "True", n |-> 0]
FalseRef == [t |-> "False", n |-> 0]
SymRef(i) == [t |-> "sym", n |-> i]
ObjRef(id) == [t |-> "obj", n |-> id]
\* what symbols[i] yields for i past the end of the list: boundscheck=False
\* makes the read an unchecked PyList_GET_ITEM
WildRef == [t |-> "wild", n |-> 0]

Obj(kind, data, size, base) ==
    [kind |-> kind, data |-> data, size |-> size, rc |-> 1 + base, base |-> base,
     clob |-> FALSE]

Inc(h, r) == IF r.t = "obj" THEN [h EXCEPT ![r.n].rc = @ + 1] ELSE h

Children(o) ==
    CASE o.kind \in {"list", "tuple", "set"} -> o.data
      [] o.kind = "dict" ->
            [i \in 1..(2 * Len(o.data)) |->
                IF i % 2 = 1 THEN o.data[(i + 1) \div 2][1] ELSE o.data[i \div 2][2]]
      [] OTHER -> <<>>

\* Py_DECREF of every reference in `work`; an object whose count reaches 0 is
\* deallocated and releases what it holds.  A count that is already 0 stays 0.
RECURSIVE drop(_, _)
drop(h, work) ==
    IF work = <<>> THEN h
    ELSE LET r == Head(work)
         IN  IF r.t # "obj" THEN drop(h, Tail(work))
             ELSE IF h[r.n].rc = 0 THEN drop(h, Tail(work))
             ELSE IF h[r.n].rc = 1
                  THEN drop([h EXCEPT ![r.n].rc = 0], Tail(work) \o Children(h[r.n]))
                  ELSE drop([h EXCEPT ![r.n].rc = @ - 1], Tail(work))

\* objects deallocated between h0 and h1
NewlyFreed(h0, h1) ==
    {i \in 1..Len(h1) : h1[i].rc = 0 /\ (i > Len(h0) \/ h0[i].rc > 0)}

Clobber(h, ids) == [i \in 1..Len(h) |-> IF i \in ids THEN [h[i] EXCEPT !.clob = TRUE] ELSE h[i]]

\* the small-int cache of CPython: -5 .. 256
IsCachedInt(w) ==
    \/ w \subseteq 0..8 /\ ToNat(w) <= 256
    \/ (WordBits \ w) \subseteq 0..2 /\ ToNat(WordBits \ w) <= 4

IntObj(w) == Obj("int", w, 0, IF IsCachedInt(w) THEN 1 ELSE 0)

StrObj(s) == Obj("str", s, 0, IF Len(s) = 0 \/ (Len(s) = 1 /\ s[1] < 256) THEN 1 ELSE 0)

BytesObj(b) == Obj("bytes", b, 0, IF Len(b) <= 1 THEN 1 ELSE 0)

----------------------------------------------------------------------------
(* Decoded values, in the form the encoder's values are compared with *)

SliceOf(buf, start, stop) == SubSeq(buf, start + 1, stop)

RECURSIVE ValueOf(_, _)
ValueOf(h, r) ==
    CASE r.t = "None" -> [k |-> "null"]
      [] r.t = "True" -> [k |-> "bool", b |-> TRUE]
      [] r.t = "False" -> [k |-> "bool", b |-> FALSE]
      [] r.t = "sym" -> [k |-> "str", s |-> symbols[r.n + 1]]
      [] r.t = "wild" -> [k |-> "wild"]
      [] OTHER ->
            LET o == h[r.n]
            IN  IF o.clob THEN [k |-> "garbage"]
                ELSE CASE o.kind \in {"int", "float", "time"} -> [k |-> o.kind, v |-> o.data]
                       [] o.kind \in {"str", "bytes"} -> [k |-> o.kind, s |-> o.data]
                       [] o.kind = "view" ->
                            [k |-> "bytes", s |-> SliceOf(buffer, o.data[1], o.data[2])]
                       [] o.kind \in {"list", "tuple"} ->
                            [k |-> o.kind,
                             items |-> [i \in 1..Len(o.data) |-> ValueOf(h, o.data[i])]]
                       [] o.kind = "set" ->
                            [k |-> "set",
                             items |-> {ValueOf(h, o.data[i]) : i \in 1..Len(o.data)}]
                       [] o.kind = "dict" ->
                            [k |-> "map",
                             items |-> {<<ValueOf(h, o.data[i][1]), ValueOf(h, o.data[i][2])>> :
                                           i \in 1..Len(o.data)}]
                       [] OTHER -> [k |-> o.kind, v |-> o.data]

\* the same form for a value given to the encoder
RECURSIVE Norm(_)
Norm(v) ==
    CASE v.k \in {"list", "tuple"} ->
            [k |-> v.k, items |-> [i \in 1..Len(v.items) |-> Norm(v.items[i])]]
      [] v.k = "set" -> [k |-> "set", items |-> {Norm(v.items[i]) : i \in 1..Len(v.items)}]
      [] v.k = "map" ->
            [k |-> "map",
             items |-> {<<[k |-> "str", s |-> v.pairs[i][1]], Norm(v.pairs[i][2])>> :
                           i \in 1..Len(v.pairs)}]
      [] OTHER -> v

\* Python's == between set elements: True == 1 and False == 0
PyKey(v) == IF v.k = "bool" THEN [k |-> "int", v |-> IF v.b THEN {0} ELSE {}] ELSE v

RECURSIVE Hashable(_, _)
Hashable(h, r) ==
    IF r.t # "obj" THEN TRUE
    ELSE LET o == h[r.n]
         IN  CASE o.kind \in {"list", "set", "dict"} -> FALSE
               [] o.kind = "tuple" -> \A i \in 1..Len(o.data) : Hashable(h, o.data[i])
               [] OTHER -> TRUE

----------------------------------------------------------------------------
(* Frames and the frame pool of the pooled decoder (core.pyx, FastDecoder)  *)

\* cdef DecodeFrame frame_pool[32]
PoolSize == 32

\* DecodeFrame(None, 0, False); frame ids 1..PoolSize are frame_pool[0..31]
InitFrame ==
    [container |-> NoneRef, remaining |-> {}, list_idx |-> 0, current_key |-> NoneRef,
     is_dict |-> FALSE]

\* `frames` lists the frames that were handed out; any other pooled frame is
\* still as __init__ made it
FrameAt(fs, f) == IF f \in DOMAIN fs THEN fs[f] ELSE InitFrame

SetFrame(fs, f, rec) == [j \in (DOMAIN fs) \cup {f} |-> IF j = f THEN rec ELSE fs[j]]

\* w - 1 in 64 bits
Dec1(w) ==
    IF w = {} THEN WordBits
    ELSE LET l == CHOOSE i \in w : \A j \in w : i <= j
         IN  (w \ {l}) \cup 0..(l - 1)

\* positions and lengths are Py_ssize_t; the model keeps them as integers
\* and folds everything beyond +-2^29 into these two far-away values
FarAway == Pow2(29)

\* <Py_ssize_t> of a 64-bit word
Ssize(w) ==
    IF w \subseteq 0..28 THEN ToNat(w)
    ELSE IF (WordBits \ w) \subseteq 0..28 THEN -ToNat(WordBits \ w) - 1
    ELSE IF 63 \in w THEN -FarAway ELSE FarAway

PosAdd(p, d) ==
    IF p + d >= FarAway THEN FarAway
    ELSE IF p + d <= -FarAway THEN -FarAway ELSE p + d

\* the bounds of buffer[start:stop] as Python slices them
SliceBounds(start, stop, size) ==
    LET a0 == IF start < 0 THEN start + size ELSE start
        b0 == IF stop < 0 THEN stop + size ELSE stop
        a  == IF a0 < 0 THEN 0 ELSE IF a0 > size THEN size ELSE a0
        b  == IF b0 < 0 THEN 0 ELSE IF b0 > size THEN size ELSE b0
    IN  <<a, IF b < a THEN a ELSE b>>

\* the decoder's mutable state as one record
Machine ==
    [heap |-> heap, frames |-> frames, stack |-> stack, frame |-> frame, val |-> val,
     pos |-> pos, pool_idx |-> pool_idx, nheap |-> nheap, hi |-> maxread]

InStack(st, f) == \E i \in 1..Len(st) : st[i] = f

\* deallocation of a DecodeFrame that is not part of the pool
ReleaseFrame(m, f) ==
    [m EXCEPT !.heap = drop(@, <<m.frames[f].container, m.frames[f].current_key>>),
              !.frames = [j \in (DOMAIN m.frames) \ {f} |-> m.frames[j]]]

RECURSIVE ReleaseFrames(_, _)
ReleaseFrames(m, fs) ==
    IF fs = {} THEN m
    ELSE LET f == CHOOSE x \in fs : \A y \in fs : x >= y
         IN  ReleaseFrames(ReleaseFrame(m, f), fs \ {f})

\* frame = <DecodeFrame>stack[-1]
LoadTop(m) ==
    LET top == m.stack[Len(m.stack)]
        old == m.frame
        m1  == [m EXCEPT !.frame = top]
    IN  IF old > PoolSize /\ old # top /\ ~InStack(m.stack, old) /\ old \in DOMAIN m.frames
        THEN ReleaseFrame(m1, old)
        ELSE m1

\* val = <a new reference>
AssignVal(m, r) == [m EXCEPT !.val = r, !.heap = drop(@, <<m.val>>)]

\* val = <a new object>
AssignNew(m, o) ==
    [m EXCEPT !.val = ObjRef(Len(m.heap) + 1), !.heap = drop(Append(@, o), <<m.val>>)]

\* outcomes of one loop iteration
Running(m) == [m |-> m, status |-> "running", error |-> "none", result |-> NoneRef]

\* a return that insists on the whole buffer having been consumed
Returned_strict_mut(m) ==
    IF m.pos < Len(buffer)
    THEN [m |-> [m EXCEPT !.stack = <<>>, !.frame = 0, !.val = NoneRef],
          status |-> "raised", error |-> "LensDecodeError: Trailing bytes", result |-> NoneRef]
    ELSE [m |-> [m EXCEPT !.stack = <<>>, !.frame = 0],
          status |-> "returned", error |-> "none", result |-> m.val]

\* leaving decode_all: the locals frame and stack go, and with them every
\* frame that is not pooled
Returned(m) ==
    [m |-> ReleaseFrames([m EXCEPT !.stack = <<>>, !.frame = 0],
                         {f \in DOMAIN m.frames : f > PoolSize}),
     status |-> "returned", error |-> "none", result |-> m.val]

Raised(m, e) ==
    [m |-> ReleaseFrames([m EXCEPT !.stack = <<>>, !.frame = 0, !.val = NoneRef,
                                   !.heap = drop(@, <<m.val>>)],
                         {f \in DOMAIN m.frames : f > PoolSize}),
     status |-> "raised", error |-> e, result |-> NoneRef]

Crashed(m) == [m |-> m, status |-> "crashed", error |-> "none", result |-> NoneRef]

\* a store outside the container's memory: the process faults, or goes on
\* with the store lost
Corrupted(m) == [m |-> m, status |-> "ub", error |-> "none", result |-> NoneRef]

\* FastDecoder._push_frame followed by stack.append
_push_frame(m, o, remaining, is_dict) ==
    LET c   == ObjRef(Len(m.heap) + 1)
        h1  == Append(m.heap, o)
        rec == [container |-> c, remaining |-> remaining, list_idx |-> 0,
                current_key |-> NoneRef, is_dict |-> is_dict]
    IN  IF m.pool_idx >= PoolSize
        THEN LET f == PoolSize + m.nheap + 1
             IN  [m EXCEPT !.heap = h1, !.frames = SetFrame(@, f, rec),
                           !.nheap = @ + 1, !.stack = Append(@, f)]
        ELSE LET f   == m.pool_idx + 1
                 old == FrameAt(m.frames, f)
             IN  [m EXCEPT !.heap = drop(drop(h1, <<old.container>>), <<old.current_key>>),
                           !.frames = SetFrame(@, f, rec),
                           !.pool_idx = @ + 1, !.stack = Append(@, f)]

\* FastDecoder._fill_container: [m, err]
_fill_container(m, f, v, owned) ==
    LET fr == m.frames[f]
        c  == fr.container.n
        o  == m.heap[c]
    IN  IF fr.is_dict
        THEN IF fr.current_key.t = "wild" THEN [m |-> m, err |-> "crash"]
             ELSE LET key == fr.current_key
                      hit == {i \in 1..Len(o.data) :
                                 ValueOf(m.heap, o.data[i][1]) = ValueOf(m.heap, key)}
                      h1  == IF hit = {}
                             THEN Inc(Inc([m.heap EXCEPT ![c].data = Append(@, <<key, v>>)],
                                          key), v)
                             ELSE LET i == CHOOSE j \in hit : TRUE
                                  IN  drop(Inc([m.heap EXCEPT ![c].data[i][2] = v], v),
                                           <<o.data[i][2]>>)
                      h2  == drop(h1, <<key>>)
                      h3  == IF owned THEN drop(h2, <<v>>) ELSE h2
                  IN  [m |-> [m EXCEPT !.heap = h3,
                                       !.frames[f].current_key = NoneRef,
                                       !.frames[f].remaining = Dec1(@)],
                       err |-> "none"]
        ELSE IF o.kind \in {"list", "tuple"}
        THEN IF fr.list_idx >= o.size
             THEN \* PyList_SET_ITEM / PyTuple_SET_ITEM past the items of the object:
                  \* the store goes to memory that is not the container's
                  [m |-> [m EXCEPT !.heap = Inc(@, v),
                                   !.frames[f].list_idx = @ + 1,
                                   !.frames[f].remaining = Dec1(@)],
                   err |-> "oob_write"]
             ELSE [m |-> [m EXCEPT !.heap = Inc([m.heap EXCEPT ![c].data = Append(@, v)], v),
                                   !.frames[f].list_idx = @ + 1,
                                   !.frames[f].remaining = Dec1(@)],
                   err |-> "none"]
        ELSE IF v.t = "wild" THEN [m |-> m, err |-> "crash"]
        ELSE IF ~Hashable(m.heap, v) THEN [m |-> m, err |-> "TypeError: unhashable type"]
        ELSE LET dup == \E i \in 1..Len(o.data) :
                            PyKey(ValueOf(m.heap, o.data[i])) = PyKey(ValueOf(m.heap, v))
                 h1  == IF dup THEN m.heap
                        ELSE Inc([m.heap EXCEPT ![c].data = Append(@, v)], v)
                 h2  == IF owned THEN drop(h1, <<v>>) ELSE h1
             IN  [m |-> [m EXCEPT !.heap = h2, !.frames[f].remaining = Dec1(@)],
                  err |-> "none"]

\* the end of an iteration that produced val: install it or return it
Install(m, owned) ==
    IF m.stack = <<>> THEN Returned(m)
    ELSE LET r == _fill_container(m, m.stack[Len(m.stack)], m.val, owned)
         IN  IF r.err = "none" THEN Running(r.m)
             ELSE IF r.err = "crash" THEN Crashed(r.m)
             ELSE IF r.err = "oob_write" THEN Corrupted(r.m)
             ELSE Raised(r.m, r.err)

----------------------------------------------------------------------------
(* decode_all of the pooled decoder, one loop iteration at a time *)

Max2(a, b) == IF a >= b THEN a ELSE b

\* unsigned a <= b
WordLE(a, b) ==
    \/ a = b
    \/ LET d == Xor(a, b)
           t == CHOOSE i \in d : \A j \in d : i >= j
       IN  t \in b

\* w + 1 for a word that is not all ones
WordInc(w) ==
    LET z == CHOOSE i \in WordBits \ w : \A j \in WordBits \ w : i <= j
    IN  (w \ (0..z)) \cup {z}

\* The Python int a C integer becomes when it is passed to a Python call:
\* its sign and the bits of its magnitude.  A uint64_t is never negative.
PyLong_FromUnsignedLongLong(w) == [neg |-> FALSE, mag |-> w]

\* the same for an int64_t (Py_ssize_t): two's complement
PyLong_FromLongLong(w) ==
    IF 63 \in w THEN [neg |-> TRUE, mag |-> WordInc(WordBits \ w)]
    ELSE [neg |-> FALSE, mag |-> w]

\* 9999-12-31T23:59:59.999Z in milliseconds, 253402300799999: the last
\* instant datetime.fromtimestamp accepts
MaxTimestampMs ==
    {0, 1, 2, 3, 4, 5, 6, 7, 8, 9, 11, 12, 14, 15, 16, 17, 18, 19, 20, 25, 28, 30, 31, 32,
     33, 34, 36, 37, 38, 41, 42, 45, 46, 47}

\* self.symbols[idx] for a uint64_t idx, with boundscheck=False:
\* an index that does not fit Py_ssize_t raises IndexError, an index inside
\* the list yields the symbol, any other index reads past the list
SymbolLookup(idx) ==
    IF 63 \in idx THEN "IndexError"
    ELSE IF IsSmallWord(idx) /\ ToNat(idx) < Len(symbols) THEN "ok"
    ELSE "ub"

\* the outcomes of reading past the list: some pointer, or a fault
WildOutcomes == {"wild", "crash"}

\* the byte values a read outside the buffer may deliver
GarbageBytes == {0, 8, 255}

\* a varint read at m.pos: [err, val, m] with m.pos and m.hi advanced
ReadVar(m) ==
    LET rd == _read_varint(buffer, m.pos)
    IN  [err |-> rd.err, val |-> rd.val,
         m |-> [m EXCEPT !.pos = rd.pos, !.hi = Max2(@, rd.pos - 1)]]

\* if frame.remaining == 0: val = frame.container; stack.pop(); ...
CloseStep(m0) ==
    LET m  == LoadTop(m0)
        c  == m.frames[m.frame].container
        m1 == AssignVal([m EXCEPT !.heap = Inc(@, c)], c)
        m2 == [m1 EXCEPT !.stack = SubSeq(@, 1, Len(@) - 1),
                         !.pool_idx = IF @ > 0 THEN @ - 1 ELSE @]
    IN  IF m2.stack = <<>> THEN Returned(m2) ELSE Install(m2, TRUE)

\* a key step that accepts any byte as the key's tag
KeyStep_notag_mut(m0, b, w) ==
    LET m  == LoadTop(m0)
        rd == ReadVar([m EXCEPT !.pos = PosAdd(@, 1)])
    IN  IF rd.err # "none" THEN Raised(rd.m, rd.err)
        ELSE IF SymbolLookup(rd.val) = "ok"
        THEN Running([rd.m EXCEPT !.frames[m.frame].current_key = SymRef(ToNat(rd.val))])
        ELSE Raised(rd.m, "IndexError")

\* if frame.is_dict and frame.current_key is None: ...
\* b is the byte the read of buffer[pos] delivered, w the outcome of a lookup
\* past the symbol list
KeyStep(m0, b, w) ==
    LET m == LoadTop(m0)
    IN  IF b # T_SYMREF
        THEN Raised(m, "LensDecodeError: Expected T_SYMREF for dict key")
        ELSE IF m.pos < -1 THEN Crashed(m)
        ELSE LET rd == ReadVar([m EXCEPT !.pos = PosAdd(@, 1)])
             IN  IF rd.err # "none" THEN Raised(rd.m, rd.err)
                 ELSE CASE SymbolLookup(rd.val) = "IndexError" -> Raised(rd.m, "IndexError")
                        [] SymbolLookup(rd.val) = "ok" ->
                             Running([rd.m EXCEPT !.frames[m.frame].current_key =
                                                      SymRef(ToNat(rd.val))])
                        [] OTHER ->
                             IF w = "crash" THEN Crashed(rd.m)
                             ELSE Running([rd.m EXCEPT !.frames[m.frame].current_key = WildRef])

DecodeInt(m) ==
    LET rd == ReadVar(m)
    IN  IF rd.err # "none" THEN Raised(rd.m, rd.err)
        ELSE Install(AssignNew(rd.m, IntObj(c_zigzag_decode(rd.val))), TRUE)

DecodeFloat(m) ==
    IF m.pos + 8 > Len(buffer)
    THEN Raised(m, "LensDecodeError: Unexpected end of buffer for float")
    ELSE Install(AssignNew([m EXCEPT !.pos = @ + 8, !.hi = Max2(@, m.pos + 7)],
                           Obj("float", be64_word(SliceOf(buffer, m.pos, m.pos + 8)), 0, 0)),
                 TRUE)

\* a negative length passes the end test and moves pos backwards; what
\* PyUnicode_DecodeUTF8 does with a negative size is not defined: the model
\* lets the process fault there
DecodeStr(m) ==
    LET rd == ReadVar(m)
        ln == Ssize(rd.val)
        p  == rd.m.pos
    IN  IF rd.err # "none" THEN Raised(rd.m, rd.err)
        ELSE IF PosAdd(p, ln) > Len(buffer)
        THEN Raised(rd.m, "LensDecodeError: Unexpected end of buffer for string")
        ELSE IF ln < 0 THEN Crashed([rd.m EXCEPT !.pos = PosAdd(p, ln)])
        ELSE LET u == utf8_decode(SliceOf(buffer, p, p + ln))
                 m1 == [rd.m EXCEPT !.pos = p + ln, !.hi = Max2(@, p + ln - 1)]
             IN  IF ~u.ok THEN Raised(m1, "UnicodeDecodeError")
                 ELSE Install(AssignNew(m1, StrObj(u.s)), TRUE)

DecodeBytes(m) ==
    LET rd == ReadVar(m)
        ln == Ssize(rd.val)
        p  == rd.m.pos
        sb == SliceBounds(p, PosAdd(p, ln), Len(buffer))
    IN  IF rd.err # "none" THEN Raised(rd.m, rd.err)
        ELSE IF PosAdd(p, ln) > Len(buffer)
        THEN Raised(rd.m, "LensDecodeError: Unexpected end of buffer for bytes")
        ELSE IF zero_copy
        THEN Install(AssignNew([rd.m EXCEPT !.pos = PosAdd(p, ln)], Obj("view", sb, 0, 0)),
                     TRUE)
        ELSE Install(AssignNew([rd.m EXCEPT !.pos = PosAdd(p, ln),
                                            !.hi = Max2(@, sb[2] - 1)],
                               BytesObj(SliceOf(buffer, sb[1], sb[2]))),
                     TRUE)

\* w: the outcome of a lookup past the symbol list
DecodeSymref(m, w) ==
    LET rd == ReadVar(m)
    IN  IF rd.err # "none" THEN Raised(rd.m, rd.err)
        ELSE CASE SymbolLookup(rd.val) = "IndexError" -> Raised(rd.m, "IndexError")
               [] SymbolLookup(rd.val) = "ok" ->
                    Install(AssignVal(rd.m, SymRef(ToNat(rd.val))), FALSE)
               [] OTHER ->
                    IF w = "crash" THEN Crashed(rd.m)
                    ELSE Install(AssignVal(rd.m, WildRef), FALSE)

\* var_int is a uint64_t: the hook and fromtimestamp get the unsigned value.
\* A "time" object carries its instant; fromtimestamp raises beyond year 9999.
DecodeTime(m) ==
    LET rd == ReadVar(m)
        var_int == c_zigzag_decode(rd.val)
    IN  IF rd.err # "none" THEN Raised(rd.m, rd.err)
        ELSE IF ts_hook
        THEN Install(AssignNew(rd.m, Obj("hooked", [hook |-> "ts",
                                                     arg |-> PyLong_FromUnsignedLongLong(var_int)],
                                       0, 0)),
                     TRUE)
        ELSE IF WordLE(fromtimestamp(var_int), MaxTimestampUs)
        THEN Install(AssignNew(rd.m, Obj("time", Instant(FALSE, fromtimestamp(var_int)), 0, 0)),
                     TRUE)
        ELSE Raised(rd.m, "ValueError: year is out of range")

\* no end test: pos += ln, and the slice buffer[start:pos] is cut to the
\* buffer; the payload is a memoryview slice whatever zero_copy says
DecodeExt(m) ==
    LET rd1 == ReadVar(m)
        rd2 == ReadVar(rd1.m)
        ln  == Ssize(rd2.val)
        p   == rd2.m.pos
        sb  == SliceBounds(p, PosAdd(p, ln), Len(buffer))
        m1  == [rd2.m EXCEPT !.pos = PosAdd(p, ln)]
        n   == Len(m1.heap)
    IN  IF rd1.err # "none" THEN Raised(rd1.m, rd1.err)
        ELSE IF rd2.err # "none" THEN Raised(rd2.m, rd2.err)
        ELSE IF ext_hook
        THEN Install(AssignNew(m1, Obj("hooked",
                                       [hook |-> "ext", id |-> rd1.val, payload |-> sb],
                                       0, 0)),
                     TRUE)
        ELSE Install(AssignNew([m1 EXCEPT !.heap = @ \o <<IntObj(rd1.val),
                                                          Obj("view", sb, 0, 0)>>],
                               Obj("tuple", <<ObjRef(n + 1), ObjRef(n + 2)>>, 2, 0)),
                     TRUE)

\* PyList_New / PyTuple_New of a count taken from the wire: a count with
\* bit 63 set is a negative Py_ssize_t (SystemError), a count of 2^31 or
\* more is taken to exhaust memory
AllocError(count) ==
    IF 63 \in count THEN "SystemError: bad argument to internal function"
    ELSE IF ~IsSmallWord(count) THEN "MemoryError"
    ELSE "none"

DecodeArr(m) ==
    LET rd == ReadVar(m)
    IN  IF rd.err # "none" THEN Raised(rd.m, rd.err)
        ELSE IF rd.val = {} THEN Install(AssignNew(rd.m, Obj("list", <<>>, 0, 0)), TRUE)
        ELSE IF AllocError(rd.val) # "none" THEN Raised(rd.m, AllocError(rd.val))
        ELSE Running(_push_frame(rd.m, Obj("list", <<>>, ToNat(rd.val), 0), rd.val, FALSE))

DecodeObj(m) ==
    LET rd == ReadVar(m)
    IN  IF rd.err # "none" THEN Raised(rd.m, rd.err)
        ELSE IF rd.val = {} THEN Install(AssignNew(rd.m, Obj("dict", <<>>, 0, 0)), TRUE)
        ELSE Running(_push_frame(rd.m, Obj("dict", <<>>, 0, 0), rd.val, TRUE))

DecodeTuple(m) ==
    LET rd == ReadVar(m)
    IN  IF rd.err # "none" THEN Raised(rd.m, rd.err)
        ELSE IF AllocError(rd.val) # "none" THEN Raised(rd.m, AllocError(rd.val))
        ELSE Running(_push_frame(rd.m,
                                 Obj("tuple", <<>>, ToNat(rd.val), IF rd.val = {} THEN 1 ELSE 0),
                                 rd.val, FALSE))

DecodeSet(m) ==
    LET rd == ReadVar(m)
    IN  IF rd.err # "none" THEN Raised(rd.m, rd.err)
        ELSE Running(_push_frame(rd.m, Obj("set", <<>>, 0, 0), rd.val, FALSE))

\* the tag dispatch of decode_all
ValueStep(m0, w) ==
    LET m == IF m0.stack # <<>> THEN LoadTop(m0) ELSE m0
    IN  IF m.pos >= Len(buffer) THEN Raised(m, "LensDecodeError: Unexpected end of buffer")
        ELSE IF m.pos < 0 THEN Crashed(m)
        ELSE LET tag == buffer[m.pos + 1]
                 m1  == [m EXCEPT !.pos = @ + 1, !.hi = Max2(@, m.pos)]
             IN  CASE tag = T_NULL -> Install(AssignVal(m1, NoneRef), TRUE)
                   [] tag = T_TRUE -> Install(AssignVal(m1, TrueRef), TRUE)
                   [] tag = T_FALSE -> Install(AssignVal(m1, FalseRef), TRUE)
                   [] tag = T_INT -> DecodeInt(m1)
                   [] tag = T_FLOAT -> DecodeFloat(m1)
                   [] tag = T_STR -> DecodeStr(m1)
                   [] tag = T_BYTES -> DecodeBytes(m1)
                   [] tag = T_SYMREF -> DecodeSymref(m1, w)
                   [] tag = T_TIME -> DecodeTime(m1)
                   [] tag = T_EXT -> DecodeExt(m1)
                   [] tag = T_ARR -> DecodeArr(m1)
                   [] tag = T_OBJ -> DecodeObj(m1)
                   [] tag = T_TUPLE -> DecodeTuple(m1)
                   [] tag = T_SET -> DecodeSet(m1)
                   [] OTHER -> Raised(m1, "LensDecodeError: Unknown tag")

----------------------------------------------------------------------------
(* Inputs *)

\* longest item sequence of the generated containers
MaxItems == 2

\* longest raw buffer fed to the decoder
MaxRaw == 4

S_id == <<105, 100>>
S_name == <<110, 97, 109, 101>>
S_zz == <<122, 122>>
S_xy == <<120, 121>>
S_e == <<233, 33>>

SymbolTables == {<<S_id, S_name>>, <<>>}

\* a table in which "id" has index 128, after 128 one-character strings
LongTable == [i \in 1..129 |-> IF i = 129 THEN S_id ELSE <<1000 + i>>]

\* a table that holds "id" twice
DupTable == <<S_id, S_name, S_id>>


\* the map of the format's worked example: {id: 7, name: "x"}
SeedValues == {VMap(<<<<S_id, VInt(IntWord(7))>>, <<S_name, VStr(<<120>>)>>>>)}

SeqsUpTo(S, n) == UNION {[1..k -> S] : k \in 0..n}

Distinct(q) == \A i, j \in 1..Len(q) : i # j => q[i] # q[j]

\* integers given to the encoder on their own: the small ones, every power
\* of two (2^63 is the most negative value) and their complements
TopIntWords ==
    {IntWord(n) : n \in {0, 1, -1, 2, -2, 63, 64, -64, -65, 300, -300}}
        \cup {{k} : k \in WordBits} \cup {WordBits \ {k} : k \in WordBits}

ItemLeaves ==
    {VNull, VBool(TRUE), VInt(IntWord(300)), VStr(S_xy), VStr(S_id), VBytes(<<1, 2>>)}

MapKeys == {S_id, S_name, S_zz}

FlatValues ==
    {VList(q) : q \in SeqsUpTo(ItemLeaves, MaxItems)}
        \cup {VTuple(q) : q \in SeqsUpTo(ItemLeaves, MaxItems)}
        \cup {VSet(q) : q \in {x \in SeqsUpTo(ItemLeaves, MaxItems) : Distinct(x)}}
        \cup {VMap(q) : q \in {x \in SeqsUpTo(MapKeys \X ItemLeaves, MaxItems) :
                                  Distinct([i \in 1..Len(x) |-> x[i][1]])}}

InnerValues ==
    {VList(<<>>), VList(<<VStr(S_xy)>>), VTuple(<<VInt(IntWord(300))>>), VMap(<<>>),
     VMap(<<<<S_id, VStr(S_xy)>>>>), VSet(<<VNull>>)}

NestedValues ==
    {VList(q) : q \in SeqsUpTo(InnerValues, MaxItems) \ {<<>>}}
        \cup {VTuple(q) : q \in SeqsUpTo(InnerValues, MaxItems) \ {<<>>}}
        \cup {VMap(q) : q \in {x \in SeqsUpTo({S_id, S_name} \X InnerValues, MaxItems) \ {<<>>} :
                                  Distinct([i \in 1..Len(x) |-> x[i][1]])}}
        \cup {VSet(<<VTuple(<<VInt(IntWord(300))>>)>>), VSet(<<VTuple(<<>>), VStr(S_e)>>)}

\* values with an object of no built-in variant in them
OtherValues ==
    {VOther(1), VOther(2), VOther(3), VOther(4), VList(<<VOther(1)>>),
     VList(<<VNull, VOther(2)>>), VMap(<<<<S_id, VOther(1)>>>>),
     VTuple(<<VStr(S_xy), VOther(3)>>), VTuple(<<VOther(1), VOther(1)>>),
     VList(<<VOther(4), VInt(IntWord(300)), VOther(1)>>),
     VList(<<VOther(1), VOther(2), VOther(4)>>)}

ScalarValues ==
    {VNull, VBool(TRUE), VBool(FALSE), VStr(<<>>), VStr(S_xy), VStr(S_id), VStr(S_e),
     VBytes(<<>>), VBytes(<<1, 2>>), VFloat({}), VFloat({63}), VFloat({62, 51, 0})}
        \cup {VInt(w) : w \in TopIntWords}

Values == ScalarValues \cup FlatValues \cup NestedValues \cup OtherValues \cup SeedValues

\* the values that are encoded with the long table as well
LongValues ==
    SeedValues \cup {VStr(S_id), VStr(S_xy), VMap(<<<<S_id, VStr(S_xy)>>>>),
                     VList(<<VStr(S_id), VStr(S_id)>>)}

\* the tables of the runs that encode v
EncSymbolTables(v) ==
    SymbolTables \cup {DupTable} \cup (IF v \in LongValues THEN {LongTable} ELSE {})

RECURSIVE HasOther(_)
HasOther(v) ==
    CASE v.k = "other" -> TRUE
      [] v.k \in {"list", "tuple", "set"} -> \E i \in 1..Len(v.items) : HasOther(v.items[i])
      [] v.k = "map" -> \E i \in 1..Len(v.pairs) : HasOther(v.pairs[i][2])
      [] OTHER -> FALSE

\* the handler of the runs: it turns object 1 into EXT 5 with two payload
\* bytes, declines object 2 with None and object 3 with a falsy non-None,
\* and turns object 4 into EXT 300 with an empty payload
TheHandler ==
    [present |-> TRUE,
     res |-> <<[k |-> "pair", eid |-> IntWord(5), payload |-> <<170, 187>>],
               [k |-> "None"], [k |-> "empty"],
               [k |-> "pair", eid |-> IntWord(300), payload |-> <<>>]>>]

Handlers(v) == IF HasOther(v) THEN {NoHandler, TheHandler} ELSE {NoHandler}

\* the byte values of the raw buffers: NULL, TRUE, FALSE, ARR, OBJ, SYMREF,
\* EXT and a byte that is no tag
RawBytes == {0, 1, 2, 6, 7, 8, 11, 14}

RawBuffers == UNION {[1..k -> RawBytes] : k \in 0..MaxRaw}

HasByte(buf, b) == \E i \in 1..Len(buf) : buf[i] = b

----------------------------------------------------------------------------
(* Actions *)

EncIdle == [err |-> "none", out |-> <<>>, buffer |-> <<>>, calls |-> <<>>]

CalcIdle == [op |-> "none"]

DecoderIdle ==
    /\ buffer = <<>> /\ pos = 0 /\ zero_copy = FALSE /\ ext_hook = FALSE
    /\ ts_hook = FALSE /\ pool_idx = 0 /\ frames = <<>> /\ stack = <<>> /\ frame = 0
    /\ val = NoneRef /\ heap = <<>> /\ nheap = 0 /\ status = "idle" /\ error = "none"
    /\ result = NoneRef /\ oob = FALSE /\ maxread = -1

decoderVars == <<buffer, pos, zero_copy, ext_hook, ts_hook, pool_idx, frames, stack, frame,
                 val, heap, nheap, status, error, result, oob, maxread>>

\* a value, a symbol table and an extension handler; the whole encoding is
\* decoded
Init ==
    /\ input \in {[mode |-> "value", v |-> v, cut |-> "full", tail |-> <<>>] : v \in Values}
    /\ symbols \in EncSymbolTables(input.v)
    /\ ext_handler \in Handlers(input.v)
    /\ phase = "new" /\ enc = EncIdle /\ calc = CalcIdle
    /\ DecoderIdle

\* FastEncoder(symbols, ext_handler).encode(value)
Encode ==
    /\ phase = "new" /\ input.mode = "value"
    /\ enc' = encode(input.v, symbols, ext_handler)
    /\ phase' = "encoded"
    /\ UNCHANGED <<input, symbols, ext_handler, calc>>
    /\ UNCHANGED decoderVars

\* FastDecoder.__init__(data, symbols, zero_copy, ext_hook, ts_hook)
Construct(data) ==
    /\ buffer' = data
    /\ pos' = 0 /\ pool_idx' = 0 /\ frames' = <<>> /\ stack' = <<>> /\ frame' = 0
    /\ val' = NoneRef /\ heap' = <<>> /\ nheap' = 0 /\ status' = "running"
    /\ error' = "none" /\ result' = NoneRef /\ oob' = FALSE /\ maxread' = -1
    /\ zero_copy' \in (IF HasByte(data, T_BYTES) THEN BOOLEAN ELSE {FALSE})
    /\ ext_hook' \in (IF HasByte(data, T_EXT) THEN BOOLEAN ELSE {FALSE})
    /\ ts_hook' \in (IF HasByte(data, T_TIME) THEN BOOLEAN ELSE {FALSE})
    /\ phase' = "decoding"

\* the decoder is built on the bytes encode returned, or on a proper prefix
\* of them, with the bytes of input.tail after them
StartDecode ==
    /\ phase = "encoded" /\ enc.err = "none"
    /\ \E n \in (IF input.cut = "full" THEN {Len(enc.out)} ELSE 0..(Len(enc.out) - 1)) :
          Construct(SubSeq(enc.out, 1, n) \o input.tail)
    /\ UNCHANGED <<input, symbols, ext_handler, enc, calc>>

\* the decoder is built on bytes that come from no encoder
StartDecodeRaw ==
    /\ phase = "new" /\ input.mode = "raw"
    /\ Construct(input.raw)
    /\ UNCHANGED <<input, symbols, ext_handler, enc, calc>>

\* the state an iteration leaves; memory freed in it is overwritten or not
Commit(out) ==
    /\ \E c \in (IF NewlyFreed(heap, out.m.heap) = {} THEN {FALSE} ELSE BOOLEAN) :
          heap' = IF c THEN Clobber(out.m.heap, NewlyFreed(heap, out.m.heap)) ELSE out.m.heap
    /\ frames' = out.m.frames /\ stack' = out.m.stack /\ frame' = out.m.frame
    /\ val' = out.m.val /\ pos' = out.m.pos /\ pool_idx' = out.m.pool_idx
    /\ nheap' = out.m.nheap /\ maxread' = out.m.hi
    /\ status' \in (IF out.status = "ub" THEN {"crashed", "running"} ELSE {out.status})
    /\ error' = out.error /\ result' = out.result
    /\ phase' = IF status' = "running" THEN "decoding" ELSE "done"
    /\ UNCHANGED <<input, symbols, ext_handler, enc, calc, buffer, zero_copy, ext_hook,
                   ts_hook>>

Top == stack[Len(stack)]

InBuffer(p) == 0 <= p /\ p < Len(buffer)

\* iteration: the top frame is complete
CloseFrame ==
    /\ phase = "decoding" /\ status = "running" /\ stack # <<>>
    /\ frames[Top].remaining = {}
    /\ Commit(CloseStep(Machine))
    /\ oob' = oob

\* iteration: the top frame is a map waiting for a key
ReadKey ==
    /\ phase = "decoding" /\ status = "running" /\ stack # <<>>
    /\ frames[Top].remaining # {}
    /\ frames[Top].is_dict /\ frames[Top].current_key = NoneRef
    /\ \E b \in (IF InBuffer(pos) THEN {buffer[pos + 1]} ELSE GarbageBytes) :
       \E w \in WildOutcomes :
          Commit(KeyStep([Machine EXCEPT !.hi = IF InBuffer(pos) THEN Max2(@, pos) ELSE @],
                         b, w))
    /\ oob' = (oob \/ ~InBuffer(pos))

\* iteration: a value is decoded
DecodeValue ==
    /\ phase = "decoding" /\ status = "running"
    /\ stack # <<>> =>
          /\ frames[Top].remaining # {}
          /\ ~(frames[Top].is_dict /\ frames[Top].current_key = NoneRef)
    /\ \E w \in WildOutcomes : Commit(ValueStep(Machine, w))
    /\ oob' = oob

Next == Encode \/ StartDecode \/ CloseFrame \/ ReadKey \/ DecodeValue

Spec == Init /\ [][Next]_vars

\* raw buffers
InitRaw ==
    /\ input \in {[mode |-> "raw", raw |-> b] : b \in RawBuffers}
    /\ symbols \in SymbolTables
    /\ ext_handler = NoHandler
    /\ phase = "new" /\ enc = EncIdle /\ calc = CalcIdle
    /\ DecoderIdle

NextRaw == StartDecodeRaw \/ CloseFrame \/ ReadKey \/ DecodeValue

SpecRaw == InitRaw /\ [][NextRaw]_vars

\* TIME payloads: the milliseconds of instants on both sides of the epoch,
\* the bounds of datetime, and the least and the greatest int64
MinTimestampMag == {11, 12, 14, 15, 18, 19, 21, 25, 28, 32, 33, 39, 43, 44, 45}

TimeMs ==
    {IntWord(n) : n \in {0, 1, -1, 2, -2, 999, -999, 1000, -1000, 86400000, -86400000}}
        \cup {MaxTimestampMs, WordInc(MaxTimestampMs), WordBits \ MinTimestampMag,
              WordInc(WordBits \ MinTimestampMag), WordBits \ {63}, {63}}

\* TIME, varint(ZigZag(ms)), alone, in a list and in a map under "id"
TimeBytes(ms) == <<T_TIME>> \o _write_varint(c_zigzag_encode(ms))

TimeInputs ==
    {[mode |-> "raw", shape |-> "bare", ms |-> ms, raw |-> TimeBytes(ms)] : ms \in TimeMs}
        \cup {[mode |-> "raw", shape |-> "list", ms |-> ms,
               raw |-> <<T_ARR, 1>> \o TimeBytes(ms)] : ms \in TimeMs}
        \cup {[mode |-> "raw", shape |-> "map", ms |-> ms,
               raw |-> <<T_OBJ, 1, T_SYMREF, 0>> \o TimeBytes(ms)] : ms \in TimeMs}

InitTimeRaw ==
    /\ input \in TimeInputs
    /\ symbols = <<S_id, S_name>>
    /\ ext_handler = NoHandler
    /\ phase = "new" /\ enc = EncIdle /\ calc = CalcIdle
    /\ DecoderIdle

SpecTimeRaw == InitTimeRaw /\ [][NextRaw]_vars

\* aware datetimes: instants on both sides of the epoch, on and off whole
\* milliseconds, and one of the year 2023 (1700000000123456 microseconds)
TimeInstants ==
    {Instant(FALSE, BitsOf(n)) : n \in {0, 1, 999, 1000, 1500, 1001000, 1001999, 2000000}}
        \cup {Instant(TRUE, BitsOf(n)) : n \in {1, 500, 1000, 1500, 1001000}}
        \cup {Instant(FALSE, {6, 9, 13, 21, 27, 28, 34, 37, 41, 43, 49, 50})}

TimeValues ==
    {VTime(t) : t \in TimeInstants}
        \cup {VList(<<VTime(t)>>) : t \in TimeInstants}
        \cup {VMap(<<<<S_id, VTime(t)>>>>) : t \in TimeInstants}

InitTime ==
    /\ input \in {[mode |-> "value", v |-> v, cut |-> "full", tail |-> <<>>] : v \in TimeValues}
    /\ symbols = <<S_id, S_name>>
    /\ ext_handler = NoHandler
    /\ phase = "new" /\ enc = EncIdle /\ calc = CalcIdle
    /\ DecoderIdle

SpecTime == InitTime /\ [][Next]_vars

\* IEEE-754 patterns: the zeros, 1.0, the least subnormal, the infinities,
\* quiet and signalling NaNs with payloads, all ones, and 0x0102030405060708
FloatPatterns ==
    {{}, {63}, 52..61, {0}, 52..62, 52..63, 51..62, (52..62) \cup {0},
     (51..63) \cup {3, 17}, WordBits, {3, 8, 9, 10, 17, 18, 24, 26, 34, 40, 41, 49, 56}}

FloatValues ==
    {VFloat(d) : d \in FloatPatterns}
        \cup {VList(<<VFloat(d)>>) : d \in FloatPatterns}
        \cup {VMap(<<<<S_id, VFloat(d)>>>>) : d \in FloatPatterns}

InitFloat ==
    /\ input \in {[mode |-> "value", v |-> v, cut |-> "full", tail |-> <<>>] : v \in FloatValues}
    /\ symbols = <<S_id, S_name>>
    /\ ext_handler = NoHandler
    /\ phase = "new" /\ enc = EncIdle /\ calc = CalcIdle
    /\ DecoderIdle

SpecFloat == InitFloat /\ [][Next]_vars

\* byte strings, alone and in containers, decoded and then overwritten in
\* the caller's buffer
SharedValues ==
    {VBytes(<<>>), VBytes(<<1, 2>>), VBytes(<<7, 8, 9>>),
     VList(<<VBytes(<<1, 2>>), VBytes(<<3>>)>>), VTuple(<<VBytes(<<1, 2>>), VNull>>),
     VList(<<VList(<<VBytes(<<5, 6>>)>>)>>), VMap(<<<<S_id, VBytes(<<1, 2>>)>>>>)}

InitShared ==
    /\ input \in {[mode |-> "value", v |-> v, cut |-> "full", tail |-> <<>>] :
                      v \in SharedValues}
    /\ symbols = <<S_id, S_name>>
    /\ ext_handler = NoHandler
    /\ phase = "new" /\ enc = EncIdle /\ calc = CalcIdle
    /\ DecoderIdle

\* the caller writes a byte of the buffer it gave to the decoder, after
\* decode_all has returned
MutateInput ==
    /\ phase = "done" /\ status = "returned"
    /\ \E i \in 1..Len(buffer) : \E b \in {0, 255} :
          /\ buffer[i] # b
          /\ buffer' = [buffer EXCEPT ![i] = b]
    /\ phase' = "mutated"
    /\ UNCHANGED <<input, symbols, ext_handler, enc, calc, pos, zero_copy, ext_hook, ts_hook,
                   pool_idx, frames, stack, frame, val, heap, nheap, status, error, result,
                   oob, maxread>>

NextShared == Next \/ MutateInput

SpecShared == InitShared /\ [][NextShared]_vars

\* EXT values on the wire: ids up to 2^64 - 1, a declared length, and as
\* many payload bytes as declared or fewer; alone, in a list and in a map
ExtIds == {{}, {0}, BitsOf(300), {32}, {31, 32}, {63}, WordBits}

ExtPayload == <<170, 187, 204>>

ExtInputs ==
    {[mode |-> "raw", shape |-> sh, id |-> id, ln |-> n, have |-> IF k <= n THEN k ELSE n,
      raw |-> (CASE sh = "bare" -> <<>>
                 [] sh = "list" -> <<T_ARR, 1>>
                 [] sh = "map" -> <<T_OBJ, 1, T_SYMREF, 0>>)
              \o <<T_EXT>> \o _write_varint(id) \o <<n>>
              \o SubSeq(ExtPayload, 1, IF k <= n THEN k ELSE n)] :
         sh \in {"bare", "list", "map"}, id \in ExtIds,
         n \in 0..3, k \in 0..3}

InitExt ==
    /\ input \in ExtInputs
    /\ symbols = <<S_id, S_name>>
    /\ ext_handler = NoHandler
    /\ phase = "new" /\ enc = EncIdle /\ calc = CalcIdle
    /\ DecoderIdle

SpecExt == InitExt /\ [][NextRaw]_vars

\* proper prefixes of encodings
CutValues == ScalarValues \cup NestedValues \cup OtherValues

InitCut ==
    /\ input \in {[mode |-> "value", v |-> v, cut |-> "prefix", tail |-> <<>>] : v \in CutValues}
    /\ symbols \in SymbolTables
    /\ ext_handler \in Handlers(input.v)
    /\ phase = "new" /\ enc = EncIdle /\ calc = CalcIdle
    /\ DecoderIdle

SpecCut == InitCut /\ [][Next]_vars

\* encodings followed by other bytes
TrailValues == ScalarValues \cup NestedValues \cup OtherValues \cup SeedValues

\* the bytes that follow: a NULL, no tag, the start of a map, three FF
Tails == {<<0>>, <<14>>, <<7, 1>>, <<255, 255, 255>>}

InitTrail ==
    /\ input \in {[mode |-> "value", v |-> v, cut |-> "full", tail |-> t] :
                      v \in TrailValues, t \in Tails}
    /\ symbols \in SymbolTables
    /\ ext_handler \in Handlers(input.v)
    /\ phase = "new" /\ enc = EncIdle /\ calc = CalcIdle
    /\ DecoderIdle

SpecTrail == InitTrail /\ [][Next]_vars

\* v inside n lists of one element
RECURSIVE Wrap(_, _)
Wrap(v, n) == IF n = 0 THEN v ELSE Wrap(VList(<<v>>), n - 1)

\* containers with container children
DeepInner ==
    {VList(<<VTuple(<<>>), VTuple(<<>>)>>), VList(<<VList(<<VNull>>), VList(<<VNull>>)>>),
     VList(<<VTuple(<<>>)>>), VList(<<VTuple(<<VNull>>), VNull>>),
     VTuple(<<VNull, VStr(S_xy)>>)}

\* the encoding of v inside n lists of one element: n times 06 01, then v
RECURSIVE WrapBytes(_, _)
WrapBytes(b, n) == IF n = 0 THEN b ELSE WrapBytes(<<T_ARR, 1>> \o b, n - 1)

\* nesting that puts such a container on the last pooled frame, or on the
\* one before it; and a map
DeepInputs ==
    {[mode |-> "raw", v |-> Wrap(v, n),
      raw |-> WrapBytes(encode(v, <<>>, NoHandler).out, n)] :
         v \in DeepInner, n \in {PoolSize - 2, PoolSize - 1}}
        \cup {[mode |-> "raw", v |-> v, raw |-> encode(v, <<S_id, S_name>>, NoHandler).out] :
                 v \in SeedValues}

InitDeep ==
    /\ input \in DeepInputs
    /\ symbols = <<S_id, S_name>>
    /\ ext_handler = NoHandler
    /\ phase = "new" /\ enc = EncIdle /\ calc = CalcIdle
    /\ DecoderIdle

SpecDeep == InitDeep /\ [][NextRaw]_vars

----------------------------------------------------------------------------
(* The helper functions on their own *)

restVars == <<input, symbols, ext_handler, enc, phase>>

\* words the ZigZag functions are applied to
ZigZagWords == TopIntWords \cup {a \cup b : a \in SUBSET {0, 1, 2}, b \in SUBSET {61, 62, 63}}

InitZigZag ==
    /\ input \in {[mode |-> "word", w |-> w] : w \in ZigZagWords}
    /\ symbols = <<>> /\ ext_handler = NoHandler
    /\ phase = "new" /\ enc = EncIdle /\ calc = CalcIdle
    /\ DecoderIdle

\* a signed word is encoded, then decoded
ZigZagSigned ==
    /\ calc.op = "none"
    /\ calc' = [op |-> "enc_dec",
                mid |-> c_zigzag_encode(input.w),
                out |-> c_zigzag_decode(c_zigzag_encode(input.w)),
                out_p0 |-> zigzag_decode(zigzag_encode(input.w))]
    /\ UNCHANGED restVars /\ UNCHANGED decoderVars

\* an unsigned word is decoded, then encoded
ZigZagUnsigned ==
    /\ calc.op = "none"
    /\ calc' = [op |-> "dec_enc",
                mid |-> c_zigzag_decode(input.w),
                out |-> c_zigzag_encode(c_zigzag_decode(input.w)),
                out_p0 |-> zigzag_encode(zigzag_decode(input.w))]
    /\ UNCHANGED restVars /\ UNCHANGED decoderVars

NextZigZag == ZigZagSigned \/ ZigZagUnsigned

SpecZigZag == InitZigZag /\ [][NextZigZag]_vars

\* most continuation bytes of the buffers the varint readers are run on
MaxCont == 11

\* buffers for the varint readers: k equal continuation bytes, then a last
\* byte, or no last byte at all
VarintBuffers ==
    UNION {{[i \in 1..k |-> c] \o t : c \in {128, 129, 255}, t \in {<<0>>, <<1>>, <<2>>, <<127>>, <<>>}} :
              k \in 0..MaxCont}

InitVarint ==
    /\ input \in {[mode |-> "raw", raw |-> b] : b \in VarintBuffers}
    /\ symbols = <<>> /\ ext_handler = NoHandler
    /\ phase = "new" /\ enc = EncIdle /\ calc = CalcIdle
    /\ DecoderIdle

\* the pooled decoder's reader (core.pyx)
ReadVarintCore ==
    /\ calc.op = "none"
    /\ calc' = [op |-> "read_core", r |-> _read_varint(input.raw, 0)]
    /\ UNCHANGED restVars /\ UNCHANGED decoderVars

\* the reader of src/unnamed/part_000
ReadVarintPart0 ==
    /\ calc.op = "none"
    /\ calc' = [op |-> "read_p0", r |-> _read_varint_p0(input.raw, 0)]
    /\ UNCHANGED restVars /\ UNCHANGED decoderVars

\* the C-array decoder's reader (core.pyx)
ReadVarintCArray ==
    /\ calc.op = "none"
    /\ \E ub \in {"mod64", "zero"} :
          calc' = [op |-> "read_c", r |-> _read_varint_c(input.raw, 0, ub)]
    /\ UNCHANGED restVars /\ UNCHANGED decoderVars

NextVarint == ReadVarintCore \/ ReadVarintPart0 \/ ReadVarintCArray

SpecVarint == InitVarint /\ [][NextVarint]_vars

\* The tag dispatch of the C-array decoder (core.pyx 485-564): the branch
\* taken for a tag byte, or the exception of the final else
dispatch_c(tag) ==
    IF tag = 0 THEN "NULL" ELSE IF tag = 1 THEN "TRUE" ELSE IF tag = 2 THEN "FALSE"
    ELSE IF tag = 3 THEN "INT" ELSE IF tag = 4 THEN "FLOAT" ELSE IF tag = 5 THEN "STR"
    ELSE IF tag = 8 THEN "SYMREF" ELSE IF tag \in {6, 13} THEN "LIST / TUPLE"
    ELSE IF tag = 7 THEN "DICT" ELSE IF tag = 12 THEN "SET"
    ELSE "NotImplementedError: Unknown tag"

\* The tag dispatch of the frame_pool-list decoder (core.pyx 777-827); its
\* LensTags end with T_EXT = 11
dispatch_list(tag) ==
    IF tag = T_NULL THEN "NULL" ELSE IF tag = T_TRUE THEN "TRUE"
    ELSE IF tag = T_FALSE THEN "FALSE" ELSE IF tag = T_INT THEN "INT"
    ELSE IF tag = T_FLOAT THEN "FLOAT" ELSE IF tag = T_STR \/ tag = T_BYTES THEN "STR / BYTES"
    ELSE IF tag = T_SYMREF THEN "SYMREF" ELSE IF tag = T_TIME THEN "TIME"
    ELSE IF tag = T_EXT THEN "EXT" ELSE IF tag = T_ARR THEN "ARR"
    ELSE IF tag = T_OBJ THEN "OBJ"
    ELSE "LensDecodeError: Tag unknown"

\* a tag byte at a value position, with eight zero bytes after it: alone, in
\* a list and as a map value
TagBytes == (0..15) \cup {127, 128, 255}

TagInputs ==
    {[mode |-> "raw", shape |-> sh, tag |-> t,
      raw |-> (CASE sh = "bare" -> <<>>
                 [] sh = "list" -> <<T_ARR, 1>>
                 [] sh = "map" -> <<T_OBJ, 1, T_SYMREF, 0>>)
              \o <<t>> \o [i \in 1..8 |-> 0]] :
         sh \in {"bare", "list", "map"}, t \in TagBytes}

InitTags ==
    /\ input \in TagInputs
    /\ symbols = <<S_id, S_name>>
    /\ ext_handler = NoHandler
    /\ phase = "new" /\ enc = EncIdle /\ calc = CalcIdle
    /\ DecoderIdle

DispatchCArray ==
    /\ calc.op = "none" /\ "tag" \in DOMAIN input
    /\ calc' = [op |-> "dispatch_c", r |-> dispatch_c(input.tag)]
    /\ UNCHANGED restVars /\ UNCHANGED decoderVars

DispatchList ==
    /\ calc.op = "none" /\ "tag" \in DOMAIN input
    /\ calc' = [op |-> "dispatch_list", r |-> dispatch_list(input.tag)]
    /\ UNCHANGED restVars /\ UNCHANGED decoderVars

NextTags == NextRaw \/ DispatchCArray \/ DispatchList

SpecTags == InitTags /\ [][NextTags]_vars

----------------------------------------------------------------------------
(* The decoder of src/unnamed/part_000, one loop iteration at a time.  Its  *)
(* state is the record in calc; containers are held as the values they      *)
(* stand for (lists and tuples as sequences, sets and dicts as sets).       *)

\* the bytes these decoders are built on: the buffer of a raw input, or what
\* encode returned
HasWire == input.mode = "raw" \/ (phase # "new" /\ enc.err = "none")

Wire == IF input.mode = "raw" THEN input.raw ELSE enc.out

\* frame.current_key is None
NoKey == [k |-> "null"]

\* DecodeFrame(container, remaining, is_dict, is_tuple)
DecodeFrame_p0(container, remaining, is_dict, is_tuple) ==
    [container |-> container, remaining |-> remaining, index |-> 0, current_key |-> NoKey,
     is_dict |-> is_dict, is_tuple |-> is_tuple]

\* hash(v) succeeds
RECURSIVE HashableValue(_)
HashableValue(v) ==
    CASE v.k \in {"list", "set", "map"} -> FALSE
      [] v.k = "tuple" -> \A i \in 1..Len(v.items) : HashableValue(v.items[i])
      [] OTHER -> TRUE

\* FastDecoder._fill_parent of part_000: [frame, err]
_fill_parent(fr, v) ==
    LET c == fr.container
    IN  IF fr.is_dict
        THEN IF fr.current_key.k = "wild" THEN [frame |-> fr, err |-> "crash"]
             ELSE [frame |->
                      [fr EXCEPT !.container.items =
                                        {q \in @ : q[1] # fr.current_key}
                                            \cup {<<fr.current_key, v>>},
                                    !.current_key = NoKey,
                                    !.remaining = PosAdd(@, -1)],
                   err |-> "none"]
        ELSE IF c.k = "list"
        THEN IF fr.index >= Len(c.items)
             THEN \* boundscheck=False: the item is stored past the list
                  [frame |-> [fr EXCEPT !.index = @ + 1, !.remaining = PosAdd(@, -1)],
                   err |-> "oob_write"]
             ELSE [frame |-> [fr EXCEPT !.container.items[fr.index + 1] = v,
                                           !.index = @ + 1,
                                           !.remaining = PosAdd(@, -1)],
                   err |-> "none"]
        ELSE IF v.k = "wild" THEN [frame |-> fr, err |-> "crash"]
        ELSE IF ~HashableValue(v) THEN [frame |-> fr, err |-> "TypeError: unhashable type"]
        ELSE [frame |-> [fr EXCEPT !.container.items =
                                          IF \E x \in @ : PyKey(x) = PyKey(v) THEN @
                                          ELSE @ \cup {v},
                                      !.remaining = PosAdd(@, -1)],
              err |-> "none"]

\* ways an iteration ends
Raise_p0(st, e) == [st EXCEPT !.status = "raised", !.error = e]

Crash_p0(st) == [st EXCEPT !.status = "crashed"]

\* the end of an iteration that produced val
Install_p0(st, v) ==
    IF st.stack = <<>> THEN [st EXCEPT !.status = "returned", !.result = v]
    ELSE LET n == Len(st.stack)
             r == _fill_parent(st.stack[n], v)
         IN  IF r.err = "none" THEN [st EXCEPT !.stack[n] = r.frame]
             ELSE IF r.err = "crash" THEN Crash_p0(st)
             ELSE IF r.err = "oob_write" THEN [st EXCEPT !.stack[n] = r.frame, !.status = "ub"]
             ELSE Raise_p0(st, r.err)

\* stack.append(DecodeFrame(...)); continue
Push_p0(st, fr) == [st EXCEPT !.stack = Append(@, fr)]

\* [None] * ln: empty for ln <= 0, MemoryError beyond what can be allocated
NoneList(ln) == [i \in 1..(IF ln < 0 THEN 0 ELSE ln) |-> VNull]

\* datetime.fromtimestamp(ln / 1000.0, tz=UTC) for the signed ln
MinTimestampUs == BigShl(MulAdd(MinTimestampMag, 125, 0), 3)

InstantOf(neg, us) ==
    [ok |-> IF neg THEN WordLE(us, MinTimestampUs) ELSE WordLE(us, MaxTimestampUs),
     t |-> Instant(neg /\ us # {}, us)]

InstantOfLong(a) == InstantOf(a.neg, fromtimestamp(a.mag))

Instant_p0(ln) == InstantOfLong(PyLong_FromLongLong(ln))

\* a varint read at st.pos: [err, val, st]
Moved_p0(st, rd) == [err |-> rd.err, val |-> rd.val, st |-> [st EXCEPT !.pos = rd.pos]]

ReadVar_p0(st) == Moved_p0(st, _read_varint_p0(Wire, st.pos))

\* frame.current_key = self.symbols[<the varint rd>]
SetKey_p0(rd, n, w) ==
    IF rd.err # "none" THEN Raise_p0(rd.st, rd.err)
    ELSE CASE SymbolLookup(rd.val) = "IndexError" -> Raise_p0(rd.st, "IndexError")
           [] SymbolLookup(rd.val) = "ok" ->
                [rd.st EXCEPT !.stack[n].current_key = VStr(symbols[ToNat(rd.val) + 1])]
           [] OTHER ->
                IF w = "crash" THEN Crash_p0(rd.st)
                ELSE [rd.st EXCEPT !.stack[n].current_key = [k |-> "wild"]]

\* the fast dict-key path
KeyStep_p0(st, w) ==
    IF st.pos >= Len(Wire) THEN Raise_p0(st, "LensDecodeError: Truncated dict key")
    ELSE IF st.pos < 0 THEN Crash_p0(st)
    ELSE IF Wire[st.pos + 1] # T_SYMREF
    THEN Raise_p0(st, "LensDecodeError: Dict key must be symbol")
    ELSE SetKey_p0(ReadVar_p0([st EXCEPT !.pos = @ + 1]), Len(st.stack), w)

\* if frame.remaining == 0: ...
CloseStep_p0(st) ==
    LET n  == Len(st.stack)
        fr == st.stack[n]
        v  == IF fr.is_tuple THEN VTuple(fr.container.items) ELSE fr.container
    IN  Install_p0([st EXCEPT !.stack = SubSeq(@, 1, n - 1)], v)

\* the varint rd as the Py_ssize_t ln, with the end test of the STR, BYTES
\* and EXT branches: [err, ln, st]
Checked_p0(rd, what) ==
    IF rd.err # "none" THEN [err |-> rd.err, ln |-> 0, st |-> rd.st]
    ELSE IF what # "count" /\ PosAdd(rd.st.pos, Ssize(rd.val)) > Len(Wire)
    THEN [err |-> "LensDecodeError: Truncated " \o what, ln |-> Ssize(rd.val), st |-> rd.st]
    ELSE [err |-> "none", ln |-> Ssize(rd.val), st |-> rd.st]

Length_p0(st, what) == Checked_p0(ReadVar_p0(st), what)

\* self.buf[self.pos:self.pos + ln]
Payload_p0(st, ln) ==
    SliceOf(Wire, SliceBounds(st.pos, PosAdd(st.pos, ln), Len(Wire))[1],
            SliceBounds(st.pos, PosAdd(st.pos, ln), Len(Wire))[2])

\* stack.append(DecodeFrame(...)) for the count r
Open_p0(r, tag) ==
    IF r.err # "none" THEN Raise_p0(r.st, r.err)
    ELSE IF tag \in {T_ARR, T_TUPLE} /\ r.ln >= FarAway THEN Raise_p0(r.st, "MemoryError")
    ELSE CASE tag = T_ARR ->
                Push_p0(r.st, DecodeFrame_p0(VList(NoneList(r.ln)), r.ln, FALSE, FALSE))
           [] tag = T_TUPLE ->
                Push_p0(r.st, DecodeFrame_p0(VList(NoneList(r.ln)), r.ln, FALSE, TRUE))
           [] tag = T_SET ->
                Push_p0(r.st, DecodeFrame_p0([k |-> "set", items |-> {}], r.ln, FALSE, FALSE))
           [] OTHER ->
                Push_p0(r.st, DecodeFrame_p0([k |-> "map", items |-> {}], r.ln, TRUE, FALSE))

OpenStep_p0(st, tag) == Open_p0(Length_p0(st, "count"), tag)

\* val = zigzag_decode(<the varint rd>)
Int_p0(rd) ==
    IF rd.err # "none" THEN Raise_p0(rd.st, rd.err)
    ELSE Install_p0(rd.st, VInt(zigzag_decode(rd.val)))

\* val = PyUnicode_DecodeUTF8(&self.buf[self.pos], ln, "strict")
Utf8_p0(st, ln, u) ==
    IF ~u.ok THEN Raise_p0(st, "UnicodeDecodeError")
    ELSE Install_p0([st EXCEPT !.pos = @ + ln], VStr(u.s))

Str_p0(r) ==
    IF r.err # "none" THEN Raise_p0(r.st, r.err)
    ELSE IF r.ln < 0 THEN Crash_p0(r.st)
    ELSE Utf8_p0(r.st, r.ln, utf8_decode(Payload_p0(r.st, r.ln)))

Bytes_p0(r) ==
    IF r.err # "none" THEN Raise_p0(r.st, r.err)
    ELSE Install_p0([r.st EXCEPT !.pos = PosAdd(@, r.ln)], VBytes(Payload_p0(r.st, r.ln)))

\* val = self.symbols[<the varint rd>]
Symref_p0(rd, w) ==
    IF rd.err # "none" THEN Raise_p0(rd.st, rd.err)
    ELSE CASE SymbolLookup(rd.val) = "IndexError" -> Raise_p0(rd.st, "IndexError")
           [] SymbolLookup(rd.val) = "ok" -> Install_p0(rd.st, VStr(symbols[ToNat(rd.val) + 1]))
           [] OTHER ->
                IF w = "crash" THEN Crash_p0(rd.st) ELSE Install_p0(rd.st, [k |-> "wild"])

\* val = datetime.fromtimestamp(...), or its ValueError
InstallTime_p0(st, t) ==
    IF ~t.ok THEN Raise_p0(st, "ValueError: year is out of range")
    ELSE Install_p0(st, VTime(t.t))

Time_p0(rd) ==
    IF rd.err # "none" THEN Raise_p0(rd.st, rd.err)
    ELSE InstallTime_p0(rd.st, Instant_p0(zigzag_decode(rd.val)))

\* val = (eid, payload)
ExtPair_p0(eid, r) ==
    IF r.err # "none" THEN Raise_p0(r.st, r.err)
    ELSE Install_p0([r.st EXCEPT !.pos = PosAdd(@, r.ln)],
                    VTuple(<<VInt(eid), VBytes(Payload_p0(r.st, r.ln))>>))

Ext_p0(rd) ==
    IF rd.err # "none" THEN Raise_p0(rd.st, rd.err)
    ELSE ExtPair_p0(rd.val, Length_p0(rd.st, "ext payload"))

\* the tag dispatch, after `self.pos += 1`
Dispatch_p0(s1, tag, w) ==
    CASE tag = T_NULL -> Install_p0(s1, VNull)
      [] tag = T_TRUE -> Install_p0(s1, VBool(TRUE))
      [] tag = T_FALSE -> Install_p0(s1, VBool(FALSE))
      [] tag = T_INT -> Int_p0(ReadVar_p0(s1))
      [] tag = T_FLOAT ->
            IF s1.pos + 8 > Len(Wire) THEN Raise_p0(s1, "LensDecodeError: Truncated float")
            ELSE Install_p0([s1 EXCEPT !.pos = @ + 8],
                            VFloat(be64_word(SliceOf(Wire, s1.pos, s1.pos + 8))))
      [] tag = T_STR -> Str_p0(Length_p0(s1, "string"))
      [] tag = T_BYTES -> Bytes_p0(Length_p0(s1, "bytes"))
      [] tag = T_SYMREF -> Symref_p0(ReadVar_p0(s1), w)
      [] tag = T_TIME -> Time_p0(ReadVar_p0(s1))
      [] tag = T_EXT -> Ext_p0(ReadVar_p0(s1))
      [] tag \in {T_ARR, T_TUPLE, T_SET, T_OBJ} -> OpenStep_p0(s1, tag)
      [] OTHER -> Raise_p0(s1, "LensDecodeError: Unknown tag")

ValueStep_p0(st, w) ==
    IF st.pos >= Len(Wire) THEN Raise_p0(st, "LensDecodeError: Unexpected EOF")
    ELSE IF st.pos < 0 THEN Crash_p0(st)
    ELSE Dispatch_p0([st EXCEPT !.pos = @ + 1], Wire[st.pos + 1], w)

\* one iteration of `while True`; `last` names the path it took
decode_step_p0(st, w) ==
    IF st.stack # <<>> /\ st.stack[Len(st.stack)].is_dict
           /\ st.stack[Len(st.stack)].current_key = NoKey
    THEN [KeyStep_p0(st, w) EXCEPT !.last = "key"]
    ELSE IF st.stack # <<>> /\ st.stack[Len(st.stack)].remaining = 0
    THEN [CloseStep_p0(st) EXCEPT !.last = "close"]
    ELSE [ValueStep_p0(st, w) EXCEPT !.last = "value"]

\* FastDecoder(data, symbols) of part_000
StartPart0 ==
    /\ calc.op = "none" /\ HasWire
    /\ calc' = [op |-> "p0", pos |-> 0, stack |-> <<>>, status |-> "running",
                error |-> "none", result |-> VNull, last |-> "start", before |-> <<>>]
    /\ UNCHANGED restVars /\ UNCHANGED decoderVars

\* an iteration of its decode_all; `before` keeps the stack the iteration
\* started with
StepPart0 ==
    /\ calc.op = "p0" /\ calc.status = "running"
    /\ \E w \in WildOutcomes :
          LET st == decode_step_p0(calc, w)
          IN  \E s \in (IF st.status = "ub" THEN {"crashed", "running"} ELSE {st.status}) :
                 calc' = [st EXCEPT !.status = s, !.before = calc.stack]
    /\ UNCHANGED restVars /\ UNCHANGED decoderVars

(* The C-array decoder of core.pyx, one loop iteration at a time.  Its      *)
(* Frame stack[MAX_STACK_DEPTH] is the sequence st.stack, depth is          *)
(* Len(st.stack) - 1; c_type is kept as the is_dict and is_tuple flags.     *)

MAX_STACK_DEPTH == 128

ReadVar_c(st, ub) ==
    LET rd == _read_varint_c(Wire, st.pos, ub)
    IN  [err |-> rd.err, val |-> rd.val, st |-> [st EXCEPT !.pos = rd.pos]]

\* u_val = self._read_varint(); bounds test; self.symbols[u_val]: [err, val, st]
Symbol_c(st, ub) ==
    LET rd == ReadVar_c(st, ub)
    IN  IF rd.err # "none" THEN rd
        ELSE IF WordLE(BitsOf(Len(symbols)), rd.val)
        THEN [rd EXCEPT !.err = "ValueError: Symbol index out of range"]
        ELSE [rd EXCEPT !.val = VStr(symbols[ToNat(rd.val) + 1])]

\* DICT KEY PATH
KeyStep_c(st, ub) ==
    IF st.pos >= Len(Wire) \/ Wire[st.pos + 1] # 8
    THEN Raise_p0(st, "ValueError: Expected dict key symbol")
    ELSE LET r == Symbol_c([st EXCEPT !.pos = @ + 1], ub)
         IN  IF r.err # "none" THEN Raise_p0(r.st, r.err)
             ELSE [r.st EXCEPT !.stack[Len(st.stack)].current_key = r.val]

\* the LIST / TUPLE, DICT and SET branches
OpenStep_c(st, tag, ub) ==
    IF (Len(st.stack) - 1) + 1 >= MAX_STACK_DEPTH
    THEN Raise_p0(st, "RuntimeError: Stack overflow")
    ELSE LET rd == ReadVar_c(st, ub)
             ln == Ssize(rd.val)
         IN  IF rd.err # "none" THEN Raise_p0(rd.st, rd.err)
             ELSE CASE tag \in {6, 13} ->
                         IF ln < 0 \/ ln >= FarAway THEN Raise_p0(rd.st, "MemoryError")
                         ELSE Push_p0(rd.st, DecodeFrame_p0(VList(NoneList(ln)), ln,
                                                            FALSE, tag = 13))
                    [] tag = 7 ->
                         Push_p0(rd.st, DecodeFrame_p0([k |-> "map", items |-> {}], ln,
                                                       TRUE, FALSE))
                    [] OTHER ->
                         Push_p0(rd.st, DecodeFrame_p0([k |-> "set", items |-> {}], ln,
                                                       FALSE, FALSE))

\* Decode next value
ValueStep_c(st, ub) ==
    IF st.pos >= Len(Wire) THEN Raise_p0(st, "ValueError: Unexpected EOF")
    ELSE
    LET tag == Wire[st.pos + 1]
        s1  == [st EXCEPT !.pos = @ + 1]
        br  == dispatch_c(tag)
    IN  CASE br = "NULL" -> Install_p0(s1, VNull)
          [] br = "TRUE" -> Install_p0(s1, VBool(TRUE))
          [] br = "FALSE" -> Install_p0(s1, VBool(FALSE))
          [] br = "INT" ->
                LET rd == ReadVar_c(s1, ub)
                IN  IF rd.err # "none" THEN Raise_p0(rd.st, rd.err)
                    ELSE Install_p0(rd.st, VInt(Xor(Shr(rd.val, 1), NegLowBit(rd.val))))
          [] br = "FLOAT" ->
                IF s1.pos + 8 > Len(Wire) THEN Raise_p0(s1, "ValueError: Truncated float")
                ELSE Install_p0([s1 EXCEPT !.pos = @ + 8],
                                VFloat(be64_word(SliceOf(Wire, s1.pos, s1.pos + 8))))
          [] br = "STR" ->
                LET rd == ReadVar_c(s1, ub)
                    ln == Ssize(rd.val)
                    u  == utf8_decode(SliceOf(Wire, rd.st.pos, rd.st.pos + ln))
                IN  IF rd.err # "none" THEN Raise_p0(rd.st, rd.err)
                    ELSE IF PosAdd(rd.st.pos, ln) > Len(Wire)
                    THEN Raise_p0(rd.st, "ValueError: Truncated string")
                    ELSE IF ln < 0 THEN Crash_p0(rd.st)
                    ELSE IF ~u.ok THEN Raise_p0(rd.st, "UnicodeDecodeError")
                    ELSE Install_p0([rd.st EXCEPT !.pos = @ + ln], VStr(u.s))
          [] br = "SYMREF" ->
                LET r == Symbol_c(s1, ub)
                IN  IF r.err # "none" THEN Raise_p0(r.st, r.err)
                    ELSE Install_p0(r.st, r.val)
          [] br \in {"LIST / TUPLE", "DICT", "SET"} -> OpenStep_c(s1, tag, ub)
          [] OTHER -> Raise_p0(s1, br)

\* one iteration of `while True`
decode_step_c(st, ub) ==
    IF st.stack # <<>> /\ st.stack[Len(st.stack)].is_dict
           /\ st.stack[Len(st.stack)].current_key = NoKey
    THEN [KeyStep_c(st, ub) EXCEPT !.last = "key"]
    ELSE IF st.stack # <<>> /\ st.stack[Len(st.stack)].remaining = 0
    THEN [CloseStep_p0(st) EXCEPT !.last = "close"]
    ELSE [ValueStep_c(st, ub) EXCEPT !.last = "value"]

\* FastDecoder(data, symbols) of the C-array decoder
StartCArray ==
    /\ calc.op = "none" /\ HasWire
    /\ calc' = [op |-> "c", pos |-> 0, stack |-> <<>>, status |-> "running",
                error |-> "none", result |-> VNull, last |-> "start", before |-> <<>>]
    /\ UNCHANGED restVars /\ UNCHANGED decoderVars

\* an iteration of its decode_all
StepCArray ==
    /\ calc.op = "c" /\ calc.status = "running"
    /\ \E ub \in {"mod64", "zero"} :
          LET st == decode_step_c(calc, ub)
          IN  \E s \in (IF st.status = "ub" THEN {"crashed", "running"} ELSE {st.status}) :
                 calc' = [st EXCEPT !.status = s, !.before = calc.stack]
    /\ UNCHANGED restVars /\ UNCHANGED decoderVars

\* containers that come to an end: maps of zero, one and two pairs, a map
\* in a list and in a map, a map followed by one more key and value, and
\* lists, a tuple and a set for comparison
OrderBuffers ==
    {<<T_OBJ, 0>>,
     <<T_OBJ, 1, T_SYMREF, 0, T_NULL>>,
     <<T_OBJ, 2, T_SYMREF, 0, T_NULL, T_SYMREF, 1, T_TRUE>>,
     <<T_OBJ, 1, T_SYMREF, 0, T_NULL, T_SYMREF, 1, T_TRUE>>,
     <<T_ARR, 1, T_OBJ, 0>>,
     <<T_ARR, 2, T_OBJ, 0, T_SYMREF, 1>>,
     <<T_OBJ, 1, T_SYMREF, 0, T_OBJ, 1, T_SYMREF, 1, T_NULL>>,
     <<T_ARR, 0>>, <<T_ARR, 2, T_NULL, T_TRUE>>, <<T_TUPLE, 1, T_NULL>>,
     <<T_SET, 1, T_NULL>>, <<T_SET, 2, T_TRUE, T_INT, 2>>}

InitOrder ==
    /\ input \in {[mode |-> "raw", raw |-> b] : b \in OrderBuffers}
    /\ symbols = <<S_id, S_name>>
    /\ ext_handler = NoHandler
    /\ phase = "new" /\ enc = EncIdle /\ calc = CalcIdle
    /\ DecoderIdle

NextOrder == NextRaw \/ StartPart0 \/ StepPart0 \/ StartCArray \/ StepCArray

SpecOrder == InitOrder /\ [][NextOrder]_vars

\* maps at the top, in a list and in a map, and a two-pair map of empty
\* tuples on the last pooled frame and on the one before it
MapBuffers ==
    {b \in OrderBuffers : T_OBJ \in {b[i] : i \in 1..Len(b)}}
        \cup {WrapBytes(<<T_OBJ, 2, T_SYMREF, 0, T_TUPLE, 0, T_SYMREF, 1, T_TUPLE, 0>>, n) :
                 n \in {PoolSize - 2, PoolSize - 1}}

InitMaps ==
    /\ input \in {[mode |-> "raw", raw |-> b] : b \in MapBuffers}
    /\ symbols = <<S_id, S_name>>
    /\ ext_handler = NoHandler
    /\ phase = "new" /\ enc = EncIdle /\ calc = CalcIdle
    /\ DecoderIdle

SpecMaps == InitMaps /\ [][NextRaw]_vars

\* d containers, each the only element (or the only map value) of the one
\* around it, the innermost one empty: d - 1 times `unit`, then `last`
NestBytes(unit, last, d) ==
    [i \in 1..((d - 1) * Len(unit)) |-> unit[((i - 1) % Len(unit)) + 1]] \o last

NestKinds == {"list", "tuple", "set", "map", "list of map"}

DepthInputs ==
    {[mode |-> "raw", kind |-> kd, depth |-> d,
      raw |-> CASE kd = "list" -> NestBytes(<<T_ARR, 1>>, <<T_ARR, 0>>, d)
                [] kd = "tuple" -> NestBytes(<<T_TUPLE, 1>>, <<T_TUPLE, 0>>, d)
                [] kd = "set" -> NestBytes(<<T_ARR, 1>>, <<T_SET, 0>>, d)
                [] kd = "map" -> NestBytes(<<T_OBJ, 1, T_SYMREF, 0>>, <<T_OBJ, 0>>, d)
                [] OTHER -> NestBytes(<<T_ARR, 1>>, <<T_OBJ, 0>>, d)] :
         kd \in NestKinds,
         d \in {MAX_STACK_DEPTH - 1, MAX_STACK_DEPTH, MAX_STACK_DEPTH + 1}}

InitDepth ==
    /\ input \in DepthInputs
    /\ symbols = <<S_id, S_name>>
    /\ ext_handler = NoHandler
    /\ phase = "new" /\ enc = EncIdle /\ calc = CalcIdle
    /\ DecoderIdle

NextDepth == StartCArray \/ StepCArray

SpecDepth == InitDepth /\ [][NextDepth]_vars

\* the four empty containers: alone, as the element of a list and of a
\* tuple, between two other elements, and as a map value
EmptyContainers == {VList(<<>>), VTuple(<<>>), VSet(<<>>), VMap(<<>>)}

EmptyInputs ==
    {[mode |-> "value", cut |-> "full", tail |-> <<>>, shape |-> sh, empty |-> e,
      v |-> CASE sh = "bare" -> e
              [] sh = "list" -> VList(<<e>>)
              [] sh = "tuple" -> VTuple(<<e>>)
              [] sh = "middle" -> VList(<<VNull, e, VBool(TRUE)>>)
              [] OTHER -> VMap(<<<<S_id, e>>>>)] :
         sh \in {"bare", "list", "tuple", "middle", "map"}, e \in EmptyContainers}

InitEmpty ==
    /\ input \in EmptyInputs
    /\ symbols = <<S_id, S_name>>
    /\ ext_handler = NoHandler
    /\ phase = "new" /\ enc = EncIdle /\ calc = CalcIdle
    /\ DecoderIdle

NextEmpty == Next \/ StartPart0 \/ StepPart0

SpecEmpty == InitEmpty /\ [][NextEmpty]_vars

\* lengths and counts on the wire: 0, 2, 2^63, 2^64 - 2 and 2^64 - 1
WireLengths == {{}, {1}, {63}, WordBits \ {0}, WordBits}

LengthTags == {T_STR, T_BYTES, T_EXT, T_ARR, T_OBJ, T_TUPLE, T_SET}

\* a tag with such a length and two NULL bytes after it: alone, in a list
\* and as a map value
LengthInputs ==
    {[mode |-> "raw", shape |-> sh, ltag |-> t, len |-> l,
      raw |-> (CASE sh = "bare" -> <<>>
                 [] sh = "list" -> <<T_ARR, 1>>
                 [] OTHER -> <<T_OBJ, 1, T_SYMREF, 0>>)
              \o <<t>> \o (IF t = T_EXT THEN <<5>> ELSE <<>>) \o _write_varint(l)
              \o <<T_NULL, T_NULL>>] :
         sh \in {"bare", "list", "map"}, t \in LengthTags, l \in WireLengths}

InitLength ==
    /\ input \in LengthInputs
    /\ symbols = <<S_id, S_name>>
    /\ ext_handler = NoHandler
    /\ phase = "new" /\ enc = EncIdle /\ calc = CalcIdle
    /\ DecoderIdle

NextLength == NextRaw \/ StartPart0 \/ StepPart0

SpecLength == InitLength /\ [][NextLength]_vars

\* buffers for the loop of decode_all: containers that come to an end, and
\* a list and a set whose element is a BYTES of length -11 (as a 64-bit
\* varint), which is as long as the tag and the varint before it
LoopBuffers ==
    OrderBuffers
        \cup {<<T_ARR, 3, T_BYTES>> \o _write_varint(IntWord(-11)),
              <<T_SET, 2, T_BYTES>> \o _write_varint(IntWord(-11)),
              <<T_ARR, 2, T_NULL, T_BYTES>> \o _write_varint(IntWord(-12))}

InitLoop ==
    /\ input \in {[mode |-> "raw", raw |-> b] : b \in LoopBuffers}
    /\ symbols = <<S_id, S_name>>
    /\ ext_handler = NoHandler
    /\ phase = "new" /\ enc = EncIdle /\ calc = CalcIdle
    /\ DecoderIdle

NextLoop == NextRaw \/ StartPart0 \/ StepPart0

SpecLoop == InitLoop /\ [][NextLoop]_vars

\* a BYTES and an EXT payload, alone and inside a list, with the value they
\* stand for
AliasInputs ==
    {[mode |-> "raw", raw |-> <<T_BYTES, 2, 1, 2>>, want |-> VBytes(<<1, 2>>)],
     [mode |-> "raw", raw |-> <<T_ARR, 2, T_BYTES, 1, 7, T_BYTES, 2, 8, 9>>,
      want |-> VList(<<VBytes(<<7>>), VBytes(<<8, 9>>)>>)],
     [mode |-> "raw", raw |-> <<T_OBJ, 1, T_SYMREF, 0, T_NULL>>,
      want |-> [k |-> "map", items |-> {<<VStr(S_id), VNull>>}]],
     [mode |-> "raw", raw |-> <<T_EXT, 5, 2, 170, 187>>,
      want |-> VTuple(<<VInt(BitsOf(5)), VBytes(<<170, 187>>)>>)],
     [mode |-> "raw", raw |-> <<T_ARR, 1, T_EXT, 5, 1, 204>>,
      want |-> VList(<<VTuple(<<VInt(BitsOf(5)), VBytes(<<204>>)>>)>>)]}

InitAlias ==
    /\ input \in AliasInputs
    /\ symbols = <<S_id, S_name>>
    /\ ext_handler = NoHandler
    /\ phase = "new" /\ enc = EncIdle /\ calc = CalcIdle
    /\ DecoderIdle

NextAlias == NextRaw \/ MutateInput

SpecAlias == InitAlias /\ [][NextAlias]_vars

(* One FastEncoder used for several encode calls *)

\* self.buffer.clear()
bytearray_clear_keep_mut(b) == b

bytearray_clear(b) == <<>>

\* encode(obj) on an instance whose buffer holds `held` from the call before
encode_again(held, obj, symbols_, ext_handler_) ==
    LET r == _encode_recursive(bytearray_clear(held), obj, symbol_map(symbols_), ext_handler_)
    IN  [err |-> r.err, out |-> IF r.err = "none" THEN r.buf ELSE <<>>, buffer |-> r.buf,
         calls |-> r.calls]

\* calls on one instance
MaxCalls == 3

\* values that encode, and values that fail after bytes have been written
ReuseValues ==
    {VNull, VInt(IntWord(300)), VStr(S_zz), VList(<<VBool(TRUE), VStr(S_id)>>),
     VMap(<<<<S_id, VBytes(<<1, 2>>)>>>>),
     VOther("a"), VList(<<VInt(IntWord(-1)), VOther("a")>>),
     VMap(<<<<S_name, VTuple(<<VNull, VOther("b")>>)>>>>)}

InitReuse ==
    /\ input \in {[mode |-> "value", v |-> v, cut |-> "full", tail |-> <<>>] :
                      v \in ReuseValues}
    /\ symbols = <<S_id, S_name>>
    /\ ext_handler = NoHandler
    /\ phase = "new" /\ enc = EncIdle /\ calc = CalcIdle
    /\ DecoderIdle

\* a further encode(obj) on the same FastEncoder; calc keeps what the call
\* was given and what the instance held before it
EncodeAgain ==
    /\ phase = "encoded"
    /\ (calc.op = "again" => calc.n < MaxCalls)
    /\ \E obj \in ReuseValues :
          /\ enc' = encode_again(enc.buffer, obj, symbols, ext_handler)
          /\ calc' = [op |-> "again", obj |-> obj, held |-> enc.buffer, failed |-> enc.err,
                      n |-> IF calc.op = "again" THEN calc.n + 1 ELSE 2]
    /\ UNCHANGED <<input, symbols, ext_handler, phase>>
    /\ UNCHANGED decoderVars

NextReuse == Encode \/ EncodeAgain

SpecReuse == InitReuse /\ [][NextReuse]_vars

----------------------------------------------------------------------------------
(* The frame_pool-list decoder of core.pyx (604-836), one iteration of its  *)
(* decode_all at a time, built with zero_copy, ext_hook and ts_hook left at *)
(* their defaults.  st.max_depth is the field __init__ stores, st.pool the  *)
(* length of frame_pool.  The module is compiled with boundscheck=False:    *)
(* a read outside the buffer or the symbol list is a fault or garbage.      *)

DEFAULT_MAX_DEPTH == 1000

\* _read_varint_nogil: the loop of the pooled reader, with its own message
_read_varint_nogil(buf, p) ==
    LET rd == read_varint_loop(buf, p, {}, 0)
    IN  IF rd.err = "LensDecodeError: Unexpected end of buffer in varint"
        THEN [rd EXCEPT !.err = "LensDecodeError: EOF in varint"]
        ELSE rd

ReadVar_l(st) == Moved_p0(st, _read_varint_nogil(Wire, st.pos))

\* <int>x for a uint64_t x
AsInt(w) == (w \cap 0..31) \cup (IF 31 \in w THEN 32..63 ELSE {})

\* self._get_frame(container, remaining, is_dict) and stack.append
Push_l(st, fr) ==
    [st EXCEPT !.stack = Append(@, fr), !.pool = IF @ > 0 THEN @ - 1 ELSE 0]

\* the frame.remaining == 0 path
CloseStep_l(st) == [CloseStep_p0(st) EXCEPT !.pool = @ + 1]

\* PyBytes_FromStringAndSize(&self.buffer[start], ln) after self.pos += ln
Bytes_l(rd, tag, w) ==
    IF rd.err # "none" THEN Raise_p0(rd.st, rd.err)
    ELSE IF Ssize(rd.val) < 0
    THEN Raise_p0([rd.st EXCEPT !.pos = PosAdd(@, Ssize(rd.val))],
                  "SystemError: Negative size passed to PyBytes_FromStringAndSize")
    ELSE IF PosAdd(rd.st.pos, Ssize(rd.val)) > Len(Wire)
    THEN IF w = "crash" THEN Crash_p0(rd.st)
         ELSE Install_p0([rd.st EXCEPT !.pos = PosAdd(@, Ssize(rd.val))], [k |-> "wild"])
    ELSE IF tag = T_STR
    THEN Utf8_p0(rd.st, Ssize(rd.val), utf8_decode(Payload_p0(rd.st, Ssize(rd.val))))
    ELSE Install_p0([rd.st EXCEPT !.pos = @ + Ssize(rd.val)],
                    VBytes(Payload_p0(rd.st, Ssize(rd.val))))

\* val = (ext_id, payload)
Ext_l(eid, rd, w) ==
    IF eid.err # "none" THEN Raise_p0(eid.st, eid.err)
    ELSE IF rd.err # "none" THEN Raise_p0(rd.st, rd.err)
    ELSE IF Ssize(rd.val) < 0
    THEN Raise_p0([rd.st EXCEPT !.pos = PosAdd(@, Ssize(rd.val))],
                  "SystemError: Negative size passed to PyBytes_FromStringAndSize")
    ELSE IF PosAdd(rd.st.pos, Ssize(rd.val)) > Len(Wire)
    THEN IF w = "crash" THEN Crash_p0(rd.st)
         ELSE Install_p0([rd.st EXCEPT !.pos = PosAdd(@, Ssize(rd.val))], [k |-> "wild"])
    ELSE Install_p0([rd.st EXCEPT !.pos = @ + Ssize(rd.val)],
                    VTuple(<<VInt(AsInt(eid.val)), VBytes(Payload_p0(rd.st, Ssize(rd.val)))>>))

\* the T_ARR and T_OBJ branches for the count rd
Open_l(rd, tag) ==
    IF rd.err # "none" THEN Raise_p0(rd.st, rd.err)
    ELSE IF rd.val = {}
    THEN Install_p0(rd.st, IF tag = T_ARR THEN VList(<<>>) ELSE [k |-> "map", items |-> {}])
    ELSE IF tag = T_OBJ
    THEN Push_l(rd.st, DecodeFrame_p0([k |-> "map", items |-> {}], Ssize(rd.val),
                                      TRUE, FALSE))
    ELSE IF Ssize(rd.val) < 0 THEN Raise_p0(rd.st, "SystemError: bad internal call")
    ELSE IF Ssize(rd.val) >= FarAway THEN Raise_p0(rd.st, "MemoryError")
    ELSE Push_l(rd.st, DecodeFrame_p0(VList(NoneList(Ssize(rd.val))), Ssize(rd.val),
                                      FALSE, FALSE))

\* the tag dispatch, after `self.pos += 1`
Dispatch_l(s1, tag, w) ==
    CASE dispatch_list(tag) = "NULL" -> Install_p0(s1, VNull)
      [] dispatch_list(tag) = "TRUE" -> Install_p0(s1, VBool(TRUE))
      [] dispatch_list(tag) = "FALSE" -> Install_p0(s1, VBool(FALSE))
      [] dispatch_list(tag) = "INT" ->
            IF ReadVar_l(s1).err # "none" THEN Raise_p0(ReadVar_l(s1).st, ReadVar_l(s1).err)
            ELSE Install_p0(ReadVar_l(s1).st, VInt(c_zigzag_decode(ReadVar_l(s1).val)))
      [] dispatch_list(tag) = "FLOAT" ->
            IF s1.pos + 8 > Len(Wire) \/ s1.pos < 0
            THEN IF w = "crash" THEN Crash_p0(s1)
                 ELSE Install_p0([s1 EXCEPT !.pos = @ + 8], [k |-> "wild"])
            ELSE Install_p0([s1 EXCEPT !.pos = @ + 8],
                            VFloat(be64_word(SliceOf(Wire, s1.pos, s1.pos + 8))))
      [] dispatch_list(tag) = "STR / BYTES" -> Bytes_l(ReadVar_l(s1), tag, w)
      [] dispatch_list(tag) = "SYMREF" -> Symref_p0(ReadVar_l(s1), w)
      [] dispatch_list(tag) = "TIME" -> Time_p0(ReadVar_l(s1))
      [] dispatch_list(tag) = "EXT" ->
            Ext_l(ReadVar_l(s1), ReadVar_l(ReadVar_l(s1).st), w)
      [] dispatch_list(tag) \in {"ARR", "OBJ"} -> Open_l(ReadVar_l(s1), tag)
      [] OTHER -> Raise_p0(s1, dispatch_list(tag))

\* the dict-key path for the byte b at self.pos
KeyStep_l(st, b, w) ==
    IF b # T_SYMREF THEN Raise_p0(st, "LensDecodeError: Key error")
    ELSE SetKey_p0(ReadVar_l([st EXCEPT !.pos = @ + 1]), Len(st.stack), w)

\* one iteration of `while True`; g is the byte an unchecked read outside the
\* buffer delivers, w what the other unchecked accesses do
decode_step_l(st, g, w) ==
    IF st.stack # <<>> /\ st.stack[Len(st.stack)].remaining = 0
    THEN [CloseStep_l(st) EXCEPT !.last = "close"]
    ELSE IF (st.pos >= Len(Wire) \/ st.pos < 0) /\ w = "crash"
    THEN Crash_p0(st)
    ELSE IF st.stack # <<>> /\ st.stack[Len(st.stack)].is_dict
               /\ st.stack[Len(st.stack)].current_key = NoKey
    THEN [KeyStep_l(st, IF st.pos >= Len(Wire) \/ st.pos < 0 THEN g ELSE Wire[st.pos + 1], w)
              EXCEPT !.last = "key"]
    ELSE [Dispatch_l([st EXCEPT !.pos = @ + 1],
                     IF st.pos >= Len(Wire) \/ st.pos < 0 THEN g ELSE Wire[st.pos + 1], w)
              EXCEPT !.last = "value"]

\* the values given for max_depth
MaxDepths == {1, 2, 3, DEFAULT_MAX_DEPTH}

\* FastDecoder(data, symbols, max_depth=md) of the frame_pool-list decoder
StartList ==
    /\ calc.op = "none" /\ HasWire
    /\ \E md \in MaxDepths :
          calc' = [op |-> "l", pos |-> 0, stack |-> <<>>, status |-> "running",
                   error |-> "none", result |-> VNull, last |-> "start", before |-> <<>>,
                   max_depth |-> md, pool |-> 16]
    /\ UNCHANGED restVars /\ UNCHANGED decoderVars

\* an iteration of its decode_all
StepList ==
    /\ calc.op = "l" /\ calc.status = "running"
    /\ \E g \in GarbageBytes, w \in WildOutcomes :
          LET st == decode_step_l(calc, g, w)
          IN  \E s \in (IF st.status = "ub" THEN {"crashed", "running"} ELSE {st.status}) :
                 calc' = [st EXCEPT !.status = s, !.before = calc.stack]
    /\ UNCHANGED restVars /\ UNCHANGED decoderVars

\* d containers open at once, the innermost holding None: lists, maps, and
\* lists and maps in turn; and one list of scalars
MaxNest == 5

RECURSIVE NestValue(_, _)
NestValue(kd, d) ==
    IF d = 0 THEN VNull
    ELSE IF kd = "list" \/ (kd = "mixed" /\ d % 2 = 0)
    THEN VList(<<NestValue(kd, d - 1)>>)
    ELSE [k |-> "map", items |-> {<<VStr(S_id), NestValue(kd, d - 1)>>}]

NestInputs ==
    {[mode |-> "raw", kind |-> kd, depth |-> d, want |-> NestValue(kd, d),
      raw |-> CASE kd = "list" -> NestBytes(<<T_ARR, 1>>, <<T_NULL>>, d + 1)
                [] kd = "map" -> NestBytes(<<T_OBJ, 1, T_SYMREF, 0>>, <<T_NULL>>, d + 1)
                [] OTHER ->
                     IF d % 2 = 0
                     THEN NestBytes(<<T_ARR, 1, T_OBJ, 1, T_SYMREF, 0>>, <<T_NULL>>,
                                    (d \div 2) + 1)
                     ELSE <<T_OBJ, 1, T_SYMREF, 0>>
                             \o NestBytes(<<T_ARR, 1, T_OBJ, 1, T_SYMREF, 0>>, <<T_NULL>>,
                                          (d \div 2) + 1)] :
         kd \in {"list", "map", "mixed"}, d \in 1..MaxNest}
    \cup {[mode |-> "raw", kind |-> "scalars", depth |-> 1,
           want |-> VList(<<VInt(IntWord(1)), VStr(<<97>>), VBytes(<<1>>),
                            VTuple(<<VInt(IntWord(1)), VBytes(<<7>>)>>), VStr(S_id),
                            VBool(TRUE)>>),
           raw |-> <<T_ARR, 6, T_INT, 2, T_STR, 1, 97, T_BYTES, 1, 1, T_EXT, 1, 1, 7,
                     T_SYMREF, 0, T_TRUE>>]}

InitNest ==
    /\ input \in NestInputs
    /\ symbols = <<S_id, S_name>>
    /\ ext_handler = NoHandler
    /\ phase = "new" /\ enc = EncIdle /\ calc = CalcIdle
    /\ DecoderIdle

NextNest == StartList \/ StepList

SpecNest == InitNest /\ [][NextNest]_vars

----------------------------------------------------------------------
(* Properties *)

\* the decode errors of the pooled decoder
LensDecodeErrors ==
    {"LensDecodeError: Unexpected end of buffer in varint",
     "LensDecodeError: Varint overflow",
     "LensDecodeError: Expected T_SYMREF for dict key",
     "LensDecodeError: Unexpected end of buffer",
     "LensDecodeError: Unexpected end of buffer for float",
     "LensDecodeError: Unexpected end of buffer for string",
     "LensDecodeError: Unexpected end of buffer for bytes",
     "LensDecodeError: Unknown tag"}

\* C1 - round trip: when a supported value (no extension object in it) has
\* been encoded with a symbol table that holds its map keys and the bytes
\* have been decoded with the same table, the decoder has returned a value
\* equal to the one encoded: lists and tuples element by element and of the
\* same kind, sets as sets, maps by key and value.
C1_RoundTrip ==
    (phase = "done" /\ input.mode = "value" /\ input.cut = "full" /\ ~HasOther(input.v))
        => (status = "returned" /\ ValueOf(heap, result) = Norm(input.v))

\* a varint of one to ten bytes: every byte but the last has the high bit
VarintShaped(q) ==
    /\ Len(q) \in 1..10
    /\ q[Len(q)] < 128
    /\ \A i \in 1..(Len(q) - 1) : q[i] >= 128

\* C2 - integer exactness: an integer of the signed 64-bit range given to
\* encode on its own yields tag 3 followed by one varint of at most ten
\* bytes, and decoding those bytes returns exactly that integer.
C2_IntegerExact ==
    (input.mode = "value" /\ input.v.k = "int" /\ phase # "new") =>
        /\ enc.err = "none"
        /\ Len(enc.out) >= 2 /\ enc.out[1] = T_INT
        /\ VarintShaped(Tail(enc.out))
        /\ phase = "done" =>
              /\ status = "returned"
              /\ pos = Len(buffer)
              /\ ValueOf(heap, result) = VInt(input.v.v)

\* the most negative integer, -2^63, has come back from its ten-byte varint
C2_Witness ==
    /\ phase = "done" /\ input.mode = "value" /\ input.v = VInt({63})
    /\ Len(enc.out) = 11 /\ status = "returned"
    /\ ValueOf(heap, result) = VInt({63})

\* C3 - ZigZag law: decoding the encoding of a signed 64-bit word gives the
\* word back, and encoding the decoding of an unsigned 64-bit word gives the
\* word back, for the functions of core.pyx and for those of part_000.
C3_ZigZagLaw ==
    (calc.op \in {"enc_dec", "dec_enc"}) =>
        /\ calc.out = input.w
        /\ calc.out_p0 = input.w
        /\ calc.mid \subseteq WordBits

\* -2^63 has been encoded to 2^64 - 1 and decoded back
C3_Witness ==
    /\ calc.op = "enc_dec" /\ input.w = {63}
    /\ calc.mid = WordBits /\ calc.out = {63}

\* the first varint of a buffer: the bytes up to the first one without the
\* high bit (the whole buffer when there is none)
FirstVarint(q) ==
    IF \E i \in 1..Len(q) : q[i] < 128
    THEN SubSeq(q, 1, CHOOSE i \in 1..Len(q) : q[i] < 128 /\ \A j \in 1..(i - 1) : q[j] >= 128)
    ELSE q

\* the bit positions of the value a varint denotes, without any width
VarintBits(q) ==
    {n \in 0..(7 * Len(q)) : \E i \in 1..Len(q) : \E j \in 0..6 :
        n = 7 * (i - 1) + j /\ j \in BitsOf(q[i] % 128)}

\* C4 - varint overflow: a reader given a varint that ends within the buffer
\* and either is longer than ten bytes or has a payload bit at position 64
\* or above fails with 'Varint overflow'; a value it returns is the value
\* the bytes denote, with no bit dropped.
C4_RejectsOverflow ==
    (calc.op \in {"read_core", "read_p0", "read_c"}
        /\ \E i \in 1..Len(input.raw) : input.raw[i] < 128) =>
        LET q == FirstVarint(input.raw)
        IN  /\ (Len(q) > 10 \/ \E n \in VarintBits(q) : n >= 64) =>
                  calc.r.err \in {"LensDecodeError: Varint overflow",
                                  "ValueError: Varint overflow"}
            /\ calc.r.err = "none" => calc.r.val = VarintBits(q)

\* C5 - bounds-checked reads: the decode loop reads an input byte only at a
\* position below the buffer length, also when the top frame is a map that
\* waits for a key.
C5_ReadsInBounds ==
    phase \in {"decoding", "done"} => (~oob /\ maxread < Len(buffer))

\* C6 - truncation: decoding a proper prefix of a valid encoding fails with
\* a decode error and returns no value, wherever the cut falls.
C6_PrefixFails ==
    (phase = "done" /\ input.mode = "value" /\ input.cut = "prefix") =>
        (status = "raised" /\ error \in LensDecodeErrors /\ result = NoneRef)

\* the next iteration reads a symbol index: the byte at pos is tag 8, and the
\* loop is about to read a map key or a value
SymrefNext ==
    /\ phase = "decoding" /\ status = "running"
    /\ InBuffer(pos) /\ buffer[pos + 1] = T_SYMREF
    /\ stack # <<>> => frames[Top].remaining # {}

KeyNext ==
    /\ phase = "decoding" /\ status = "running" /\ stack # <<>>
    /\ frames[Top].remaining # {}
    /\ frames[Top].is_dict /\ frames[Top].current_key = NoneRef

\* C7 - symbol index check: an index read as a SYMREF value or as a map key
\* that is not below the length of the symbol table ends the decode with a
\* 'symbol index out of range' error; an index below it yields that symbol.
C7_SymbolIndexChecked ==
    [][(SymrefNext /\ _read_varint(buffer, pos + 1).err = "none") =>
          LET idx == _read_varint(buffer, pos + 1).val
          IN  IF IsSmallWord(idx) /\ ToNat(idx) < Len(symbols)
              THEN /\ status' \notin {"raised", "crashed"} \/ error' = "TypeError: unhashable type"
                   /\ IF KeyNext THEN frames'[Top].current_key = SymRef(ToNat(idx))
                      ELSE val' = SymRef(ToNat(idx))
              ELSE /\ status' = "raised"
                   /\ error' \in {"LensDecodeError: Symbol index out of range",
                                  "ValueError: Symbol index out of range"}]_vars

\* C8 - map key tag: with a map on top of the stack that has no pending key
\* and entries left, a byte other than tag 8 at pos ends the decode with the
\* 'Expected T_SYMREF' decode error: only that byte has been read, pos has
\* not moved, the map holds what it held and no value is returned.
C8_KeyMustBeSymref ==
    [][(KeyNext /\ InBuffer(pos) /\ buffer[pos + 1] # T_SYMREF) =>
          /\ status' = "raised"
          /\ error' = "LensDecodeError: Expected T_SYMREF for dict key"
          /\ result' = NoneRef
          /\ pos' = pos
          /\ maxread' = Max2(maxread, pos)
          /\ heap'[frames[Top].container.n].data = heap[frames[Top].container.n].data]_vars

\* a decode has ended on a map key byte that is not tag 8
C8_Witness ==
    /\ phase = "done" /\ status = "raised"
    /\ error = "LensDecodeError: Expected T_SYMREF for dict key"
    /\ ~oob /\ InBuffer(pos) /\ buffer[pos + 1] # T_SYMREF
    /\ \E f \in DOMAIN frames : frames[f].is_dict /\ frames[f].remaining # {}

\* some map of v, at any depth, has a key that is not a symbol
RECURSIVE HasUnknownKey(_)
HasUnknownKey(v) ==
    CASE v.k \in {"list", "tuple", "set"} ->
            \E i \in 1..Len(v.items) : HasUnknownKey(v.items[i])
      [] v.k = "map" ->
            \E i \in 1..Len(v.pairs) :
                \/ \A j \in 1..Len(symbols) : symbols[j] # v.pairs[i][1]
                \/ HasUnknownKey(v.pairs[i][2])
      [] OTHER -> FALSE

\* C9 - unknown map key: encoding a value that has, at any depth, a map with
\* a key outside the symbol table fails with a LensEncodeError and returns
\* no bytes.
C9_UnknownKeyIsEncodeError ==
    (phase # "new" /\ input.mode = "value" /\ HasUnknownKey(input.v)) =>
        (enc.err \in {"LensEncodeError: unknown symbol", "LensEncodeError: Unsupported type"}
            /\ enc.out = <<>>)

\* the handler turns the extension object into an (id, payload) pair
Accepted(v) == ext_handler.present /\ ext_handler.res[v.tok].k = "pair"

\* v has an extension object and the handler, if any, declines every
\* extension object of v
RECURSIVE AllDeclined(_)
AllDeclined(v) ==
    CASE v.k = "other" -> ~Accepted(v)
      [] v.k \in {"list", "tuple", "set"} -> \A i \in 1..Len(v.items) : AllDeclined(v.items[i])
      [] v.k = "map" -> \A i \in 1..Len(v.pairs) : AllDeclined(v.pairs[i][2])
      [] OTHER -> TRUE

\* C10 - unsupported type: encoding a value with an object of no built-in
\* variant in it, with no handler or with a handler that returns a falsy
\* result for it, fails with the 'Unsupported type' LensEncodeError (unless
\* a map key outside the table is met first), returns no bytes and has put
\* no EXT tag into the buffer.
C10_UnsupportedFails ==
    (phase # "new" /\ input.mode = "value" /\ HasOther(input.v) /\ AllDeclined(input.v)) =>
        /\ enc.out = <<>>
        /\ ~HasByte(enc.buffer, T_EXT)
        /\ enc.err \in {"LensEncodeError: Unsupported type", "KeyError"}
        /\ (~HasUnknownKey(input.v) \/ input.v.k = "other") =>
              enc.err = "LensEncodeError: Unsupported type"

\* a handler was asked, returned None, and the encode failed
C10_Witness ==
    /\ phase = "encoded" /\ input.mode = "value" /\ input.v = VOther(2)
    /\ ext_handler.present /\ ext_handler.res[2].k = "None"
    /\ enc.err = "LensEncodeError: Unsupported type" /\ enc.buffer = <<>>

\* the sequences of qs, one after the other
RECURSIVE ConcatAll(_)
ConcatAll(qs) == IF qs = <<>> THEN <<>> ELSE Head(qs) \o ConcatAll(Tail(qs))

\* the extension objects of v in the order a traversal meets them
RECURSIVE OthersOf(_)
OthersOf(v) ==
    CASE v.k = "other" -> <<v.tok>>
      [] v.k \in {"list", "tuple", "set"} ->
            ConcatAll([i \in 1..Len(v.items) |-> OthersOf(v.items[i])])
      [] v.k = "map" -> ConcatAll([i \in 1..Len(v.pairs) |-> OthersOf(v.pairs[i][2])])
      [] OTHER -> <<>>

IsPrefix(a, b) == Len(a) <= Len(b) /\ SubSeq(b, 1, Len(a)) = a

\* tag 11, varint(ext_id), varint(len(payload)), payload for an extension
\* object, and the encoding of any other item
ItemBytes(v) ==
    IF v.k = "other"
    THEN LET res == ext_handler.res[v.tok]
         IN  <<11>> \o _write_varint(res.eid) \o _write_varint(IntWord(Len(res.payload)))
                 \o res.payload
    ELSE _encode_recursive(<<>>, v, symbol_map(symbols), NoHandler).buf

\* C11 - extension handler: during one encode the handler is called once
\* for each unsupported value met, in the order met, and for no other value;
\* when it returns (ext_id, payload) the encoder appends tag 11,
\* varint(ext_id), varint(len(payload)) and the payload bytes, so that an
\* extension object on its own, or a list or tuple with extension objects
\* in it, encodes to exactly those bytes in place of each object.  An
\* encode that fails as unsupported has asked the handler about the object
\* it fails on, once, after the accepted ones before it.
C11_ExtHandlerExact ==
    (phase # "new" /\ input.mode = "value" /\ HasOther(input.v)) =>
        /\ ~ext_handler.present => enc.calls = <<>>
        /\ IsPrefix(enc.calls, OthersOf(input.v))
        /\ enc.err = "none" =>
              /\ ext_handler.present
              /\ enc.calls = OthersOf(input.v)
              /\ input.v.k = "other" => enc.out = ItemBytes(input.v)
              /\ input.v.k \in {"list", "tuple"} =>
                    enc.out = <<IF input.v.k = "list" THEN 6 ELSE 13, Len(input.v.items)>>
                                  \o ConcatAll([i \in 1..Len(input.v.items) |->
                                                    ItemBytes(input.v.items[i])])
        /\ (enc.err = "LensEncodeError: Unsupported type" /\ ext_handler.present) =>
              /\ enc.calls # <<>>
              /\ \A i \in 1..Len(enc.calls) :
                    Accepted(VOther(enc.calls[i])) <=> i < Len(enc.calls)

\* a list with two extension objects and an integer between them has been
\* encoded: two calls, and EXT 300 with no payload, 300, EXT 5 with AA BB
C11_Witness ==
    /\ phase = "encoded" /\ input.mode = "value"
    /\ input.v = VList(<<VOther(4), VInt(IntWord(300)), VOther(1)>>)
    /\ enc.calls = <<4, 1>>
    /\ enc.out = <<6, 3, 11, 172, 2, 0, 3, 216, 4, 11, 5, 2, 170, 187>>

\* ZigZag of a signed word, by cases: 2n for n >= 0, -2n - 1 (the complement
\* of 2n) for n < 0
ZigZagRef(w) == IF 63 \in w THEN WordBits \ Shl(w, 1) ELSE Shl(w, 1)

\* C12 - scalar encodings: null encodes to the byte 00, true to 01, false to
\* 02 (a boolean never gets the integer tag), and an integer n to 03
\* followed by the shortest little-endian base-128 varint of ZigZag(n): -1
\* gives 03 01 and 300 gives 03 D8 04.
C12_ScalarsExact ==
    (phase # "new" /\ input.mode = "value") =>
        /\ input.v = VNull => enc.out = <<0>>
        /\ input.v = VBool(TRUE) => enc.out = <<1>>
        /\ input.v = VBool(FALSE) => enc.out = <<2>>
        /\ input.v.k = "int" =>
              /\ Len(enc.out) >= 2 /\ enc.out[1] = 3
              /\ VarintShaped(Tail(enc.out))
              /\ VarintBits(Tail(enc.out)) = ZigZagRef(input.v.v)
              /\ Len(enc.out) > 2 => enc.out[Len(enc.out)] # 0
        /\ input.v = VInt(IntWord(-1)) => enc.out = <<3, 1>>
        /\ input.v = VInt(IntWord(300)) => enc.out = <<3, 216, 4>>

\* 300 has been encoded to 03 D8 04
C12_Witness ==
    /\ phase = "encoded" /\ input.mode = "value"
    /\ input.v = VInt(IntWord(300)) /\ enc.out = <<3, 216, 4>>


\* the varint of a number below 2^14, by cases
VarintRef(n) == IF n < 128 THEN <<n>> ELSE <<128 + (n % 128), n \div 128>>

\* the bytes the encoder gives a value on its own
ValueBytes(v) == _encode_recursive(<<>>, v, symbol_map(symbols), ext_handler).buf

\* C13 - map encoding: a map of k pairs whose keys are all symbols encodes as
\* tag 07, varint(k) and then, pair by pair in iteration order, the byte 08,
\* the varint of the key's index and the encoded value, with nothing in
\* between; a key takes 1 + varint_len(index) bytes whatever its string is.
\* With symbols [id, name], {id: 7, name: "x"} gives
\* 07 02 08 00 03 0E 08 01 05 01 78.
C13_MapEncoding ==
    (phase # "new" /\ input.mode = "value" /\ input.v.k = "map" /\ enc.err = "none") =>
        /\ enc.out =
              <<7, Len(input.v.pairs)>> \o
                  ConcatAll([i \in 1..Len(input.v.pairs) |->
                                <<8>> \o VarintRef(symbol_map(symbols)[input.v.pairs[i][1]])
                                    \o ValueBytes(input.v.pairs[i][2])])
        /\ \A i \in 1..Len(input.v.pairs) :
              symbols[symbol_map(symbols)[input.v.pairs[i][1]] + 1] = input.v.pairs[i][1]
        /\ (input.v \in SeedValues /\ symbols = <<S_id, S_name>>) =>
              enc.out = <<7, 2, 8, 0, 3, 14, 8, 1, 5, 1, 120>>

\* a map with the key "id" at index 128 has been encoded: the key takes the
\* three bytes 08 80 01
C13_Witness ==
    /\ phase = "encoded" /\ input.mode = "value" /\ symbols = LongTable
    /\ input.v = VMap(<<<<S_id, VStr(S_xy)>>>>)
    /\ enc.out = <<7, 1, 8, 128, 1, 5, 2, 120, 121>>


\* w has a list wherever v has a list and a tuple wherever v has a tuple,
\* whatever the leaves are
RECURSIVE KindsKept(_, _)
KindsKept(v, w) ==
    CASE v.k \in {"list", "tuple"} ->
            /\ w.k = v.k /\ Len(w.items) = Len(v.items)
            /\ \A i \in 1..Len(v.items) : KindsKept(v.items[i], w.items[i])
      [] v.k = "set" ->
            /\ w.k = "set"
            /\ \A x \in v.items : \E y \in w.items : KindsKept(x, y)
      [] v.k = "map" ->
            /\ w.k = "map"
            /\ \A p \in v.items : \E q \in w.items : q[1] = p[1] /\ KindsKept(p[2], q[2])
      [] OTHER -> TRUE

\* C14 - tuple and list stay apart: a list encodes with tag 06 and a tuple
\* of the same elements with tag 0D and otherwise the same bytes, and what
\* decode returns has kind tuple wherever the value encoded has a tuple and
\* kind list wherever it has a list, at top level and nested, for any count.
C14_TupleListKinds ==
    (phase # "new" /\ input.mode = "value" /\ ~HasOther(input.v)) =>
        /\ (input.v.k \in {"list", "tuple"} /\ enc.err = "none") =>
              /\ enc.out[1] = (IF input.v.k = "list" THEN 6 ELSE 13)
              /\ Tail(enc.out) =
                    Tail(ValueBytes([input.v EXCEPT !.k = IF @ = "list" THEN "tuple"
                                                           ELSE "list"]))
        /\ (phase = "done" /\ input.cut = "full") =>
              /\ status = "returned"
              /\ KindsKept(Norm(input.v), ValueOf(heap, result))


\* the positions of the string s in the symbol table, counted from 0
IndicesOf(s) == {i \in 0..(Len(symbols) - 1) : symbols[i + 1] = s}

FirstIndexOf(s) == CHOOSE i \in IndicesOf(s) : \A j \in IndicesOf(s) : i <= j

LastIndexOf(s) == CHOOSE i \in IndicesOf(s) : \A j \in IndicesOf(s) : i >= j

\* the string the encoder emits a symbol index for first: the value itself
\* when it is a string of the table, the first key when it is a map
FirstSymbolOf(v) ==
    IF v.k = "str" THEN v.s
    ELSE IF v.k = "map" /\ v.pairs # <<>> THEN v.pairs[1][1]
    ELSE <<0>>

\* where that index starts in the encoding: after the tag of a string value,
\* after tag and count of a map
SymrefAt(v) == IF v.k = "str" THEN 1 ELSE 3

\* the encoding has 08 and the varint of idx at that place
EmitsIndex(idx) ==
    LET q == <<8>> \o VarintRef(idx)
        a == SymrefAt(input.v)
    IN  /\ Len(enc.buffer) >= a + Len(q) - 1
        /\ SubSeq(enc.buffer, a, a + Len(q) - 1) = q

\* an encode has met a string of the table
SymbolEmitted ==
    /\ phase # "new" /\ input.mode = "value"
    /\ IndicesOf(FirstSymbolOf(input.v)) # {}

\* C15 as stated - first occurrence: for a string that occurs in the symbol
\* table, also several times, the encoder emits the smallest index at which
\* it occurs, as a map key and as a string value.
C15_FirstIndex == SymbolEmitted => EmitsIndex(FirstIndexOf(FirstSymbolOf(input.v)))

\* C15 amended - last occurrence: for a string that occurs in the symbol
\* table, also several times, the encoder emits the largest index at which
\* it occurs, as a map key and as a string value.
C15_LastIndex == SymbolEmitted => EmitsIndex(LastIndexOf(FirstSymbolOf(input.v)))

\* "id" sits at indices 0 and 2 and has been encoded as a value: index 2
C15_Witness ==
    /\ phase = "encoded" /\ input.mode = "value" /\ symbols = DupTable
    /\ input.v = VStr(S_id) /\ enc.out = <<8, 2>>


\* no object of the heap has been freed and overwritten
NoneClobbered == \A i \in 1..Len(heap) : ~heap[i].clob

C17_PoolIndependent ==
    (phase = "done" /\ input.mode = "raw" /\ input.v \notin SeedValues) =>
        (status = "returned" /\ ValueOf(heap, result) = Norm(input.v))

\* ms lies within the instants of datetime (years 1 to 9999)
InDatetimeRange(ms) ==
    IF 63 \in ms THEN WordLE(PyLong_FromLongLong(ms).mag, MinTimestampMag)
    ELSE WordLE(ms, MaxTimestampMs)

\* C18 - the decode of TIME varint(ZigZag(ms)) gives ts_hook the signed ms;
\* with no hook the result is the instant at ms milliseconds.
C18_HookGetsSignedMs ==
    (phase = "done" /\ input.mode = "raw" /\ "ms" \in DOMAIN input /\ input.shape = "bare") =>
        IF ts_hook
        THEN /\ status = "returned"
             /\ ValueOf(heap, result) =
                    [k |-> "hooked",
                     v |-> [hook |-> "ts", arg |-> PyLong_FromLongLong(input.ms)]]
        ELSE InDatetimeRange(input.ms) =>
                /\ status = "returned"
                /\ 63 \notin input.ms
                /\ ValueOf(heap, result) = VTime(Instant(FALSE, MulAdd(input.ms, 1000, 0)))

\* the instant t with its part below the millisecond cut off
TruncToMs(t) ==
    LET ms == DivMod(t.mag, 1000).q
    IN  Instant(t.neg /\ ms # {}, MulAdd(ms, 1000, 0))

\* C19 - timestamps round-trip to the millisecond: with no ts_hook the
\* decode of the encoding of an instant returns that instant with its
\* sub-millisecond part truncated, before and after the epoch.
C19_TimeRoundTrip ==
    (phase = "done" /\ input.mode = "value" /\ input.v.k = "time" /\ ~ts_hook) =>
        (status = "returned" /\ ValueOf(heap, result) = VTime(TruncToMs(input.v.v)))

\* byte i of d, byte 0 the least significant
ByteOf(d, i) == SumPow2({k \in 0..7 : (8 * i + k) \in d})

\* C20 - float bit-pattern exactness: a float of pattern d is encoded as tag
\* 4 and the 8 bytes of d, most significant first, and the decode of those 9
\* bytes returns a float of the same pattern; zeros, infinities and NaNs
\* included.
C20_FloatBitsExact ==
    (input.mode = "value" /\ input.v.k = "float") =>
        /\ phase # "new" =>
              /\ enc.err = "none"
              /\ enc.out = <<T_FLOAT>> \o [j \in 1..8 |-> ByteOf(input.v.v, 8 - j)]
        /\ phase = "done" =>
              /\ status = "returned"
              /\ ValueOf(heap, result) = [k |-> "float", v |-> input.v.v]

\* a signalling NaN with payload 1 went through encode and decode
C20_Witness ==
    /\ phase = "done" /\ status = "returned"
    /\ input.v = VFloat((52..62) \cup {0})
    /\ enc.out = <<4, 127, 240, 0, 0, 0, 0, 0, 1>>
    /\ ValueOf(heap, result) = VFloat((52..62) \cup {0})

\* the number of bytes v takes on the wire
WireLen(v) == Len(encode(v, symbols, NoHandler).out)

\* v as a reader of the buffer sees it when v was encoded at position p and
\* every byte string of v is the payload on the wire, not a copy of it
RECURSIVE OnWire(_, _)
RECURSIVE OnWireItems(_, _)
OnWire(v, p) ==
    CASE v.k = "bytes" -> VBytes(SliceOf(buffer, p + 2, p + 2 + Len(v.s)))
      [] v.k \in {"list", "tuple"} -> [k |-> v.k, items |-> OnWireItems(v.items, p + 2)]
      [] v.k = "map" ->
            [k |-> "map",
             items |-> {<<VStr(v.pairs[1][1]), OnWire(v.pairs[1][2], p + 4)>>}]
      [] OTHER -> v

OnWireItems(items, p) ==
    IF items = <<>> THEN <<>>
    ELSE <<OnWire(Head(items), p)>> \o OnWireItems(Tail(items), p + WireLen(Head(items)))

\* C21 - with zero_copy every decoded BYTES value is the payload's range of
\* the caller's buffer: it reads what that range holds now, also after the
\* caller has written into it.
C21_ZeroCopyShares ==
    (phase \in {"done", "mutated"} /\ status = "returned" /\ zero_copy
        /\ input.v \in SharedValues) =>
        ValueOf(heap, result) = OnWire(input.v, 0)

\* the bytes a slice object of the buffer shows
ViewBytes(sb) == SliceOf(buffer, sb[1], sb[2])

\* C22 - an EXT value decodes to the pair (ext_id, payload) with the whole
\* 64-bit id and a payload of exactly the declared length; with an ext_hook
\* the hook gets that id and payload and its result is the value.
C22_ExtPair ==
    (phase = "done" /\ status = "returned" /\ input.mode = "raw" /\ "id" \in DOMAIN input
        /\ input.shape = "bare") =>
        LET start == Len(buffer) - input.have
            v == ValueOf(heap, result)
        IN  IF ext_hook
            THEN /\ v.k = "hooked" /\ v.v.hook = "ext" /\ v.v.id = input.id
                 /\ v.v.payload = <<start, start + input.ln>>
                 /\ Len(ViewBytes(v.v.payload)) = input.ln
            ELSE /\ v.k = "tuple" /\ Len(v.items) = 2
                 /\ v.items[1] = VInt(input.id)
                 /\ v.items[2].k = "bytes" /\ Len(v.items[2].s) = input.ln
                 /\ v.items[2].s = SubSeq(ExtPayload, 1, input.ln)

UnknownTagErrors ==
    {"LensDecodeError: Unknown tag", "NotImplementedError: Unknown tag",
     "LensDecodeError: Tag unknown"}

\* C23 - the decoders accept exactly the tags 0..13 at a value position: no
\* such tag is rejected as unknown, and every tag byte from 14 on fails with
\* the unknown-tag error.
C23_FourteenTags ==
    /\ (phase = "done" /\ input.mode = "raw" /\ "tag" \in DOMAIN input
           /\ "id" \notin DOMAIN input /\ input.shape = "bare") =>
          IF input.tag <= 13 THEN error \notin UnknownTagErrors
          ELSE status = "raised" /\ error = "LensDecodeError: Unknown tag"
    /\ calc.op \in {"dispatch_c", "dispatch_list"} =>
          (calc.r \in UnknownTagErrors <=> input.tag >= 14)

\* the top frame of a decoder held in calc
TopOf(st) == st.stack[Len(st.stack)]

\* C24 - close before key: a step taken while the top frame's remaining
\* count is zero pops that frame and reads nothing (no key read on a finished
\* or empty map), and no frame's remaining count is ever negative.
C24_CloseBeforeKey ==
    [][/\ (phase = "decoding" /\ status = "running" /\ stack # <<>>
              /\ frames[Top].remaining = {} /\ decoderVars' # decoderVars) =>
             (pos' = pos /\ Len(stack') < Len(stack))
       /\ (calc.op \in {"p0", "c"} /\ calc.status = "running" /\ calc.stack # <<>>
              /\ TopOf(calc).remaining = 0 /\ calc' # calc) =>
             (calc'.last = "close" /\ calc'.pos = calc.pos)
       /\ (calc.op \in {"p0", "c"} /\ calc' # calc) =>
             \A i \in 1..Len(calc'.stack) : calc'.stack[i].remaining >= 0
       /\ phase' = "decoding" =>
             \A i \in 1..Len(stack') : 63 \notin frames'[stack'[i]].remaining]_vars

\* C25 - no frame record is shared: while decode_all runs, the frames on the
\* stack are pairwise distinct (so _push_frame never hands out a frame that
\* is still on the stack) and pool_idx equals the number of pooled frames on
\* the stack.
C25_NoSharedFrame ==
    (phase = "decoding" /\ status = "running") =>
        /\ \A i, j \in 1..Len(stack) : i # j => stack[i] # stack[j]
        /\ pool_idx = Cardinality({i \in 1..Len(stack) : stack[i] <= PoolSize})

\* C26 - per-frame map protocol: a map frame starts with no pending key, and
\* while it stays on the stack a step either leaves its pending key and
\* remaining count alone, or reads a key (none was pending, remaining is
\* kept), or installs a value (a key was pending, the key is cleared and
\* remaining drops by exactly one).
C26_MapProtocol ==
    [][(phase = "decoding" /\ status = "running" /\ phase' = "decoding") =>
          /\ \A i \in 1..Len(stack) :
                (frames[stack[i]].is_dict /\ i <= Len(stack') /\ stack'[i] = stack[i]) =>
                    LET a == frames[stack[i]]
                        b == frames'[stack[i]]
                    IN  /\ b.is_dict
                        /\ \/ b.current_key = a.current_key /\ b.remaining = a.remaining
                           \/ /\ a.current_key = NoneRef /\ b.current_key # NoneRef
                              /\ b.remaining = a.remaining
                           \/ /\ a.current_key # NoneRef /\ b.current_key = NoneRef
                              /\ b.remaining = Dec1(a.remaining)
          /\ (Len(stack') > Len(stack) /\ frames'[stack'[Len(stack')]].is_dict) =>
                frames'[stack'[Len(stack')]].current_key = NoneRef]_vars

\* the list and tuple objects that are alive
LiveSequences == {i \in 1..Len(heap) : heap[i].rc > 0 /\ heap[i].kind \in {"list", "tuple"}}

\* C27 - for every list or tuple frame on the stack, opened with count N:
\* next index + remaining = N and exactly the slots 0 .. next index - 1 have
\* been written, in wire order; a list or tuple that is on no frame (it has
\* been installed or returned) has all its N slots written; and when decode
\* returns, the frame stack is empty.
C27_SlotsInOrder ==
    /\ (phase = "decoding" /\ status = "running") =>
          \A i \in 1..Len(stack) :
              LET fr == frames[stack[i]]
              IN  /\ fr.container.t = "obj"
                  /\ heap[fr.container.n].kind \in {"list", "tuple"} =>
                        LET o == heap[fr.container.n]
                        IN  /\ fr.list_idx <= o.size
                            /\ fr.remaining = BitsOf(o.size - fr.list_idx)
                            /\ Len(o.data) = fr.list_idx
    /\ phase \in {"decoding", "done"} /\ status \in {"running", "returned"} =>
          \A c \in LiveSequences :
              \/ Len(heap[c].data) = heap[c].size
              \/ \E i \in 1..Len(stack) : frames[stack[i]].container = ObjRef(c)
    /\ (phase = "done" /\ status = "returned") => stack = <<>>

\* C28 - depth limit of the C-array decoder: the stack never holds more than
\* MAX_STACK_DEPTH frames (index 0 .. 127); a buffer that opens exactly
\* MAX_STACK_DEPTH nested containers is decoded; one that opens one more
\* fails with the stack overflow error.
C28_DepthLimit ==
    (calc.op = "c" /\ "depth" \in DOMAIN input) =>
        /\ Len(calc.stack) <= MAX_STACK_DEPTH
        /\ (input.depth = MAX_STACK_DEPTH /\ calc.status # "running") =>
              calc.status = "returned"
        /\ (input.depth = MAX_STACK_DEPTH + 1 /\ calc.status # "running") =>
              (calc.status = "raised" /\ calc.error = "RuntimeError: Stack overflow")

\* the tag of an empty container and the bytes before and after it
EmptyTag(e) ==
    CASE e.k = "list" -> T_ARR [] e.k = "tuple" -> T_TUPLE [] e.k = "set" -> T_SET
      [] OTHER -> T_OBJ

EmptyWire(sh, e) ==
    CASE sh = "bare" -> <<EmptyTag(e), 0>>
      [] sh = "list" -> <<T_ARR, 1, EmptyTag(e), 0>>
      [] sh = "tuple" -> <<T_TUPLE, 1, EmptyTag(e), 0>>
      [] sh = "middle" -> <<T_ARR, 3, T_NULL, EmptyTag(e), 0, T_TRUE>>
      [] OTHER -> <<T_OBJ, 1, T_SYMREF, 0, EmptyTag(e), 0>>

\* C29 - empty containers: an empty list, tuple, set or map is encoded as its
\* tag and the byte 0, alone or inside a parent, and the decoders turn these
\* bytes back into the empty container of the same kind, consuming exactly
\* the two bytes.
C29_EmptyContainers ==
    ("empty" \in DOMAIN input) =>
        /\ phase # "new" => (enc.err = "none" /\ enc.out = EmptyWire(input.shape, input.empty))
        /\ phase = "done" =>
              /\ status = "returned" /\ pos = Len(buffer)
              /\ ValueOf(heap, result) = Norm(input.v)
        /\ (calc.op = "p0" /\ calc.status # "running") =>
              /\ calc.status = "returned" /\ calc.pos = Len(Wire)
              /\ calc.result = Norm(input.v)

DecodeErrors ==
    {"LensDecodeError: Unexpected end of buffer for string",
     "LensDecodeError: Unexpected end of buffer for bytes",
     "LensDecodeError: Unexpected end of buffer", "LensDecodeError: Truncated string",
     "LensDecodeError: Truncated bytes", "LensDecodeError: Truncated ext payload",
     "LensDecodeError: Varint overflow"}

\* C30 - the read position never decreases and stays within 0 .. buffer
\* length; a length or count of 2^63 or more on the wire ends the decode in
\* a decode error, and no frame gets a negative remaining count.
C30_PositionBounds ==
    [][("ltag" \in DOMAIN input) =>
          /\ phase' \in {"decoding", "done"} =>
                /\ 0 <= pos' /\ pos' <= Len(buffer')
                /\ phase = "decoding" => pos' >= pos
                /\ \A f \in DOMAIN frames' : 63 \notin frames'[f].remaining
                /\ (phase' = "done" /\ 63 \in input.len) =>
                      (status' = "raised" /\ error' \in DecodeErrors)
          /\ calc'.op = "p0" =>
                /\ 0 <= calc'.pos /\ calc'.pos <= Len(Wire)
                /\ calc.op = "p0" => calc'.pos >= calc.pos
                /\ \A i \in 1..Len(calc'.stack) : calc'.stack[i].remaining >= 0
                /\ (calc'.status # "running" /\ 63 \in input.len) =>
                      (calc'.status = "raised" /\ calc'.error \in DecodeErrors)]_vars

\* C31 - decode_all terminates: every loop iteration that does not end the
\* call with an error pops a frame or moves the read position forward by at
\* least one byte.
C31_IterationProgress ==
    [][/\ (phase = "decoding" /\ status = "running" /\ decoderVars' # decoderVars
              /\ status' \in {"running", "returned"}) =>
             (Len(stack') < Len(stack) \/ pos' > pos)
       /\ (calc.op = "p0" /\ calc.status = "running" /\ calc' # calc
              /\ calc'.status \in {"running", "returned"}) =>
             (Len(calc'.stack) < Len(calc.stack) \/ calc'.pos > calc.pos)]_vars

\* C32 - with zero_copy false nothing decoded aliases the input buffer: no
\* live object is a slice of the buffer, and the value decode returned is
\* the value of the bytes given to the decoder, also after the caller has
\* changed the buffer.
C32_OwnedCopies ==
    ("want" \in DOMAIN input /\ phase \in {"done", "mutated"} /\ status = "returned"
         /\ ~zero_copy) =>
        /\ \A i \in 1..Len(heap) : heap[i].rc > 0 => heap[i].kind # "view"
        /\ ~ext_hook => ValueOf(heap, result) = input.want

\* C33 - encoder reuse is history-independent: a call of encode(V) on an
\* instance that has served earlier calls, failed ones included, gives
\* exactly the result of a fresh encoder with the same symbol table.
C33_ReuseIndependent ==
    calc.op = "again" =>
        /\ enc.err = encode(calc.obj, symbols, ext_handler).err
        /\ enc.out = encode(calc.obj, symbols, ext_handler).out

\* a successful call on an instance left with bytes by a failed call
C33_Witness ==
    /\ calc.op = "again" /\ calc.failed # "none" /\ calc.held # <<>>
    /\ enc.err = "none" /\ enc.out # <<>>

\* r refers to an object that has been deallocated
Dangling(r) == r.t = "obj" /\ heap[r.n].rc = 0

\* C34 - the pooled decoder releases only references it owns: no entry of a
\* live container, no field of a frame on the stack, and neither the loop
\* variable val nor the returned value refers to an object that has been
\* freed.
C34_NoDanglingReference ==
    phase \in {"decoding", "done"} =>
        /\ \A i \in 1..Len(heap) :
              heap[i].rc > 0 =>
                  \A k \in 1..Len(Children(heap[i])) : ~Dangling(Children(heap[i])[k])
        /\ \A j \in 1..Len(stack) :
              /\ ~Dangling(frames[stack[j]].container)
              /\ ~Dangling(frames[stack[j]].current_key)
        /\ ~Dangling(val)
        /\ status = "returned" => ~Dangling(result)

\* C35 - max_depth of the frame_pool-list decoder: never more than max_depth
\* containers are open; a buffer that opens more than max_depth nested
\* containers ends with a decode error about the nesting depth; one that
\* opens at most max_depth is decoded to its value.
C35_MaxDepthEnforced ==
    (calc.op = "l" /\ "depth" \in DOMAIN input) =>
        /\ Len(calc.stack) <= calc.max_depth
        /\ (input.depth > calc.max_depth /\ calc.status # "running") =>
              (calc.status = "raised" /\ calc.error = "LensDecodeError: Max depth exceeded")
        /\ (input.depth <= calc.max_depth /\ calc.status # "running") =>
              (calc.status = "returned" /\ calc.result = input.want)

=============================================================================
